---- MODULE Spec2Model ----
(***************************************************************************)
(* A model of llvm/lib/Transforms/Instrumentation/HWAddressSanitizer.cpp:  *)
(* the pointer tag codec, the inline tag check that the pass emits in      *)
(* front of a memory access, the tagging and untagging of stack            *)
(* allocations, and the assignment of tags to globals.                     *)
(*                                                                         *)
(* A 64-bit pointer is the record [top, low]: top is the byte made of bits *)
(* 56..63, low stands for bits 0..55.  Every mask the pass applies to a    *)
(* pointer is all-ones (AND) or all-zeros (OR) on bits 0..55, so the codec *)
(* leaves low as it is and works on top, byte-wide, with the shifts and    *)
(* masks of the code reduced to that byte.  A tag value is the low byte of *)
(* the 64-bit Value the pass computes: the code only ever shifts it left   *)
(* by PointerTagShift or truncates it to 8 bits.                           *)
(***************************************************************************)
EXTENDS Integers, Naturals, Sequences, FiniteSets, TLC

VARIABLES
    cfg,          \* the pass configuration of this run (initializeModule)
    cIn,          \* codec: the pointer p handed to the codec
    cT,           \* codec: the tag t handed to tagPointer
    cTagged,      \* codec: tagPointer(p, t)
    cUntagTagged, \* codec: untagPointer(tagPointer(p, t))
    cUntagPlain,  \* codec: untagPointer(p)
    cRetag,       \* codec: tagPointer(untagPointer(p), t)
    shadow,       \* shadow memory: one tag byte per granule
    mem,          \* application memory, byte by byte
    pc,           \* the block of the emitted check the access is in
    aPtr,         \* the pointer operand of the access being checked
    aSizeIdx,     \* AccessSizeIndex of the access (log2 of its width)
    aIsWrite,     \* whether the access is a store
    rPtrTag,      \* PtrTag, computed in the head block
    rMemTag,      \* MemTag, loaded from shadow in the head block
    trapCount,    \* how many times the trap was executed for this access
    accessed,     \* whether the checked load or store has executed
    fpc,          \* how far the instrumented function has run
    CachedSP,     \* the frame address: [top, mid, lo] = bits 56..63, 20..27, 0..7
    ThreadLong,   \* bits 3..10 of the thread slot value loaded in the prologue
    StackBaseTag, \* the member set by emitPrologue (-1: null)
    StackTag,     \* the value getStackBaseTag returns (-1: null)
    UARTag,       \* the value getUARTag returns
    aiNo,         \* N, the index of the allocation in AllocasToInstrument
    aiSize,       \* getAllocaSizeInBytes of the allocation
    AllocaTag,    \* Tag, the value getAllocaTag returns (-1: not computed)
    Replacement,  \* the tagged address that replaces the uses of the alloca
    lastWrites,   \* the stores made by the last tagAlloca
    gTag,         \* instrumentGlobals: the uint8_t Tag counter
    gLeft,        \* instrumentGlobals: globals of the list still to visit
    gAssigned,    \* instrumentGlobals: the tags handed to instrumentGlobal
    fn,           \* the function being instrumented: its blocks and edges
    plan,         \* what instrumentStack inserted and erased for the alloca
    at,           \* the instruction <<block, index>> the function runs next
    evs,          \* the tag, untag and return events of the run so far
    inputs,       \* the target, the pass options and the flags of a pass run
    Mapping,      \* the ShadowMapping member
    members,      \* ShadowBase, StackBaseTag and CachedSP: TRUE when set
    sfLog,        \* what the last sanitizeFunction call saw and did
    sfCount,      \* how many functions sanitizeFunction has been called on
    gModule,      \* the global objects of the module
    gRuns,        \* how many times instrumentGlobals has run on the module
    slot,         \* the thread slot value: [top, addr]
    ringLog,      \* where the frame records were stored
    opts,         \* the target and the flags instrumentMemAccess works under
    emitted,      \* what instrumentMemAccess did for each operand so far
    funcs,        \* the functions of the module and their personalities
    stage         \* how far the pass has come over funcs

codecVars == <<cIn, cT, cTagged, cUntagTagged, cUntagPlain, cRetag>>
memVars == <<shadow, mem>>
checkVars == <<pc, aPtr, aSizeIdx, aIsWrite, rPtrTag, rMemTag, trapCount,
               accessed>>
stackVars == <<fpc, CachedSP, ThreadLong, StackBaseTag, StackTag, UARTag, aiNo,
               aiSize, AllocaTag, Replacement, lastWrites>>
globalVars == <<gTag, gLeft, gAssigned>>
lifeVars == <<fn, plan, at, evs>>
passVars == <<inputs, Mapping, members, sfLog, sfCount>>
moduleVars == <<gModule, gRuns>>
ringVars == <<slot, ringLog>>
instrVars == <<opts, emitted, funcs, stage>>
extVars == <<lifeVars, passVars, moduleVars, ringVars, instrVars>>
notCodecVars == <<memVars, checkVars, stackVars, globalVars, extVars>>
notCheckVars == <<codecVars, stackVars, globalVars, extVars>>
vars == <<cfg, codecVars, memVars, checkVars, stackVars, globalVars, extVars>>

----------------------------------------------------------------------------
(* Bytes and bitwise operations on them (IRBuilder CreateAnd/Or/Xor).      *)

ByteWidth == 8
Byte == 0 .. 255

RECURSIVE BitAnd(_, _, _)
BitAnd(a, b, n) ==
    IF n = 0 THEN 0
    ELSE (a % 2) * (b % 2) + 2 * BitAnd(a \div 2, b \div 2, n - 1)

RECURSIVE BitOr(_, _, _)
BitOr(a, b, n) ==
    IF n = 0 THEN 0
    ELSE (IF (a % 2) + (b % 2) > 0 THEN 1 ELSE 0)
         + 2 * BitOr(a \div 2, b \div 2, n - 1)

RECURSIVE BitXor(_, _, _)
BitXor(a, b, n) ==
    IF n = 0 THEN 0
    ELSE (((a % 2) + (b % 2)) % 2) + 2 * BitXor(a \div 2, b \div 2, n - 1)

And8(a, b) == BitAnd(a, b, ByteWidth)
Or8(a, b) == BitOr(a, b, ByteWidth)
Xor8(a, b) == BitXor(a, b, ByteWidth)

RECURSIVE Pow2(_)
Pow2(n) == IF n = 0 THEN 1 ELSE 2 * Pow2(n - 1)

----------------------------------------------------------------------------
(* Module-level parameters (initializeModule).                             *)

Archs == {"aarch64", "x86_64"}

\* The settings of one run of the pass, as initializeModule resolves them
\* from the target and the flags; the specifications vary the fields their
\* operations read.  MatchAllTag -1 is the empty optional.
DefaultCfg ==
    [arch |-> "aarch64", CompileKernel |-> FALSE, Recover |-> FALSE,
     UseShortGranules |-> TRUE, InstrumentWithCalls |-> FALSE,
     MatchAllTag |-> -1, ClInlineAllChecks |-> "true",
     ClGenerateTagsWithCalls |-> FALSE, FrameRecordInstr |-> FALSE,
     DetectUseAfterScope |-> FALSE, ELF |-> TRUE, UsePageAliases |-> FALSE]

IsX86_64(c) == c.arch = "x86_64"

PointerTagShift(c) == IF IsX86_64(c) THEN 57 ELSE 56

TagMaskByte(c) == IF IsX86_64(c) THEN 63 ELSE 255

\* The position of bit PointerTagShift inside the top byte (bits 56..63).
TopByteShift(c) == PointerTagShift(c) - 56

\* Top byte of (Tag << PointerTagShift) for a Value whose low byte is t:
\* the bits shifted beyond bit 63 are lost.
ShiftedTagTop(c, t) == (t * Pow2(TopByteShift(c))) % 256

\* Top byte of (1ULL << PointerTagShift) - 1; its bits 0..55 are all ones.
LowOnesTop(c) == Pow2(TopByteShift(c)) - 1

\* Top byte of TagMaskByte << PointerTagShift; its bits 0..55 are zero.
TagMaskTop(c) == (TagMaskByte(c) * Pow2(TopByteShift(c))) % 256

NoPtr == [top |-> -1, low |-> -1]

----------------------------------------------------------------------------
(* Pointer tag codec.                                                      *)

tagPointer(c, p, t) ==
    IF c.CompileKernel
    THEN \* PtrLong & ((Tag << PointerTagShift) | ((1 << PointerTagShift) - 1))
         [top |-> And8(p.top, Or8(ShiftedTagTop(c, t), LowOnesTop(c))),
          low |-> p.low]
    ELSE \* PtrLong | (Tag << PointerTagShift)
         [top |-> Or8(p.top, ShiftedTagTop(c, t)), low |-> p.low]

untagPointer(c, p) ==
    IF c.CompileKernel
    THEN \* PtrLong | (TagMaskByte << PointerTagShift)
         [top |-> Or8(p.top, TagMaskTop(c)), low |-> p.low]
    ELSE \* PtrLong & ~(TagMaskByte << PointerTagShift)
         [top |-> And8(p.top, 255 - TagMaskTop(c)), low |-> p.low]

\* PtrTag of the checks: trunc to i8 of (PtrLong >> PointerTagShift).
PtrTagOf(c, p) == p.top \div Pow2(TopByteShift(c))

----------------------------------------------------------------------------
(* Memory: shadow bytes and application bytes.                             *)

kDefaultShadowScale == 4

\* Mapping.getObjectAlignment(): the granule, 1 << Scale.
Granule == Pow2(kDefaultShadowScale)

\* The largest allocation size the model tags (an instrumented alloca has a
\* size of at least 1).
MaxAllocaSize == 32

\* alignTo(Size, Mapping.getObjectAlignment())
alignTo(size) == ((size + Granule - 1) \div Granule) * Granule

\* The granules of application memory the model holds: those of the largest
\* allocation, and one more behind it.
NumGranules == alignTo(MaxAllocaSize) \div Granule + 1

MemBytes == NumGranules * Granule
Granules == 0 .. NumGranules - 1
Addrs == 0 .. MemBytes - 1

\* memToShadow: the shadow byte of address a is byte (a >> Scale) of shadow.
memToShadow(a) == a \div Granule

\* a | 15: the last byte of the granule that holds address a.
OrLow4(a) == (a \div Granule) * Granule + (Granule - 1)

\* a & 15
AndLow4(a) == a % Granule

\* Top byte of an untagged address: 0x00 in user space; in the kernel the
\* tag bits are all ones.
UntaggedTop(c) == IF c.CompileKernel THEN 255 ELSE 0

MemZero ==
    /\ shadow = [g \in Granules |-> 0]
    /\ mem = [a \in Addrs |-> 0]

StackIdle ==
    /\ fpc = "none"
    /\ CachedSP = [top |-> 0, mid |-> 0, lo |-> 0]
    /\ ThreadLong = 0
    /\ StackBaseTag = -1
    /\ StackTag = -1
    /\ UARTag = -1
    /\ aiNo = 0
    /\ aiSize = 0
    /\ AllocaTag = -1
    /\ Replacement = NoPtr
    /\ lastWrites = {}

GlobalsIdle ==
    /\ gTag = 0
    /\ gLeft = 0
    /\ gAssigned = <<>>

\* No function is being instrumented or run.
LifeIdle ==
    /\ fn = [code |-> <<>>, succ |-> <<>>, exits |-> [ok |-> TRUE, at |-> {}]]
    /\ plan = [done |-> FALSE]
    /\ at = <<0, 0>>
    /\ evs = <<>>

\* No pass object has been constructed.
PassIdle ==
    /\ inputs = [none |-> TRUE]
    /\ Mapping = [none |-> TRUE]
    /\ members = [ShadowBase |-> FALSE, StackBaseTag |-> FALSE,
                  CachedSP |-> FALSE]
    /\ sfLog = [none |-> TRUE]
    /\ sfCount = 0

ModuleIdle ==
    /\ gModule = <<>>
    /\ gRuns = 0

RingIdle ==
    /\ slot = [top |-> 0, addr |-> 0]
    /\ ringLog = <<>>

\* No operand has been instrumented and no personality installed.
InstrIdle ==
    /\ opts = [none |-> TRUE]
    /\ emitted = <<>>
    /\ funcs = <<>>
    /\ stage = "none"

ExtIdle ==
    /\ LifeIdle
    /\ PassIdle
    /\ ModuleIdle
    /\ RingIdle
    /\ InstrIdle

----------------------------------------------------------------------------
(* The check in front of a memory access (instrumentMemAccess,             *)
(* instrumentMemAccessInline).  The inline check is the control-flow graph *)
(* that the three SplitBlockAndInsertIfThen calls build:                   *)
(*   head    : PtrTag, MemTag, TagMismatch;    br mismatch ? check : access*)
(*   check   : MemTag > 15;                    br ? fail : lowbits         *)
(*   lowbits : (Ptr & 15) + size - 1 >= MemTag; br ? fail : inline         *)
(*   inline  : load (Addr | 15) != PtrTag;      br ? fail : pass           *)
(*   pass    : br access                                                   *)
(*   fail    : trap; unreachable, or br pass when Recover                  *)
(*   access  : the checked load or store                                   *)
(* An untagged address whose top byte is not that of an address of the     *)
(* modelled memory leaves the model (pc "wild"): its shadow is not held.   *)

kNumberOfAccessSizes == 5

AccessSizeIndexes == 0 .. kNumberOfAccessSizes - 1

HasMatchAll(c) == c.MatchAllTag # -1

\* initializeModule: OutlinedChecks.
OutlinedChecks(c) ==
    /\ c.arch \in {"aarch64", "riscv64"}
    /\ c.ELF
    /\ IF c.ClInlineAllChecks = "unset" THEN ~c.Recover
       ELSE c.ClInlineAllChecks = "false"

\* A choice that looks at OutlinedChecks before InstrumentWithCalls.
StrategyOutlineFirst(c) ==
    IF OutlinedChecks(c) THEN "outline"
    ELSE IF c.InstrumentWithCalls THEN "call"
    ELSE "inline"

\* instrumentMemAccess: which check a power-of-two access of at most 16
\* bytes gets.
Strategy(c) ==
    IF c.InstrumentWithCalls THEN "call"
    ELSE IF OutlinedChecks(c) THEN "outline"
    ELSE "inline"

CheckIdle ==
    /\ pc = "idle"
    /\ aPtr = NoPtr
    /\ aSizeIdx = 0
    /\ aIsWrite = FALSE
    /\ rPtrTag = 0
    /\ rMemTag = 0
    /\ trapCount = 0
    /\ accessed = FALSE

\* TagMismatch of the head block.
TagMismatch(c, ptrTag, memTag) ==
    /\ ptrTag # memTag
    /\ HasMatchAll(c) => ptrTag # c.MatchAllTag

OutOfShortGranuleTagRange(memTag) == memTag > 15

\* PtrLowBits: trunc(PtrLong & 15) + ((1 << AccessSizeIndex) - 1), in i8.
PtrLowBits(p, sizeIdx) == (AndLow4(p.low) + (Pow2(sizeIdx) - 1)) % 256

PtrLowBitsOOBStrict(lowBits, memTag) == lowBits > memTag

PtrLowBitsOOB(lowBits, memTag) == lowBits >= memTag

\* InlineTag: the byte at AddrLong | 15.
InlineTag(c, p) == mem[OrLow4(untagPointer(c, p).low)]

FailSuccessorFallThrough(c) == "pass"

\* A fail block that ends in unreachable whatever Recover is.
FailSuccessorUnreachable(c) == "abort"

\* SplitBlockAndInsertIfThen(.., Unreachable = !Recover): the fail block ends
\* in unreachable; with Recover its branch is redirected to the pass block.
FailSuccessor(c) == IF c.Recover THEN "pass" ELSE "abort"

\* An instrumented access reaches its check.
StartAccess(p, sizeIdx, isWrite) ==
    /\ pc = "idle"
    /\ Strategy(cfg) = "inline"
    /\ pc' = "head"
    /\ aPtr' = p
    /\ aSizeIdx' = sizeIdx
    /\ aIsWrite' = isWrite
    /\ trapCount' = 0
    /\ accessed' = FALSE
    /\ UNCHANGED <<cfg, rPtrTag, rMemTag, memVars, notCheckVars>>

CheckHead ==
    /\ pc = "head"
    /\ LET ptrTag == PtrTagOf(cfg, aPtr)
           addrLong == untagPointer(cfg, aPtr)
           mapped == addrLong.top = UntaggedTop(cfg)
           memTag == IF mapped THEN shadow[memToShadow(addrLong.low)] ELSE 0
       IN /\ rPtrTag' = ptrTag
          /\ rMemTag' = memTag
          /\ pc' = IF ~mapped THEN "wild"
                   ELSE IF TagMismatch(cfg, ptrTag, memTag) THEN "check"
                   ELSE "access"
    /\ UNCHANGED <<cfg, aPtr, aSizeIdx, aIsWrite, trapCount, accessed,
                   memVars, notCheckVars>>

CheckShortRange ==
    /\ pc = "check"
    /\ pc' = IF OutOfShortGranuleTagRange(rMemTag) THEN "fail" ELSE "lowbits"
    /\ UNCHANGED <<cfg, aPtr, aSizeIdx, aIsWrite, rPtrTag, rMemTag,
                   trapCount, accessed, memVars, notCheckVars>>

CheckLowBits ==
    /\ pc = "lowbits"
    /\ pc' = IF PtrLowBitsOOB(PtrLowBits(aPtr, aSizeIdx), rMemTag)
             THEN "fail" ELSE "inline"
    /\ UNCHANGED <<cfg, aPtr, aSizeIdx, aIsWrite, rPtrTag, rMemTag,
                   trapCount, accessed, memVars, notCheckVars>>

CheckInlineTag ==
    /\ pc = "inline"
    /\ pc' = IF rPtrTag # InlineTag(cfg, aPtr) THEN "fail" ELSE "pass"
    /\ UNCHANGED <<cfg, aPtr, aSizeIdx, aIsWrite, rPtrTag, rMemTag,
                   trapCount, accessed, memVars, notCheckVars>>

CheckPass ==
    /\ pc = "pass"
    /\ pc' = "access"
    /\ UNCHANGED <<cfg, aPtr, aSizeIdx, aIsWrite, rPtrTag, rMemTag,
                   trapCount, accessed, memVars, notCheckVars>>

\* The fail block: the trap instruction (the fault sequence).
CheckFail ==
    /\ pc = "fail"
    /\ trapCount' = trapCount + 1
    /\ pc' = FailSuccessor(cfg)
    /\ UNCHANGED <<cfg, aPtr, aSizeIdx, aIsWrite, rPtrTag, rMemTag,
                   accessed, memVars, notCheckVars>>

\* The checked load or store itself.
DoAccess ==
    /\ pc = "access"
    /\ accessed' = TRUE
    /\ pc' = "done"
    /\ UNCHANGED <<cfg, aPtr, aSizeIdx, aIsWrite, rPtrTag, rMemTag,
                   trapCount, memVars, notCheckVars>>

InlineCheckStep ==
    \/ CheckHead
    \/ CheckShortRange
    \/ CheckLowBits
    \/ CheckInlineTag
    \/ CheckPass
    \/ CheckFail
    \/ DoAccess

----------------------------------------------------------------------------
(* Specification of the inline check: every access against every shadow    *)
(* tag and every tag byte at the end of the granule.                       *)

CodecIdle ==
    /\ cIn = NoPtr
    /\ cT = 0
    /\ cTagged = NoPtr
    /\ cUntagTagged = NoPtr
    /\ cUntagPlain = NoPtr
    /\ cRetag = NoPtr

\* Pointer tags, shadow bytes and last-byte values the check is run on:
\* short-granule values (0..15), full tags, and values that coincide with
\* one another and with the match-all tag.
CheckPtrTags == {5, 42}
CheckMemTags == {0, 1, 5, 8, 12, 15, 16, 42}
CheckInlineTags == {0, 5, 42}
CheckMatchAllTags == {-1, 42}

CheckCfgs ==
    {[DefaultCfg EXCEPT !.arch = a, !.Recover = r, !.MatchAllTag = m] :
        a \in Archs, r \in BOOLEAN, m \in CheckMatchAllTags}

InitCheck ==
    /\ ExtIdle
    /\ cfg \in CheckCfgs
    /\ CodecIdle
    /\ CheckIdle
    /\ StackIdle
    /\ GlobalsIdle
    /\ \E m \in CheckMemTags :
          shadow = [g \in Granules |-> IF g = 0 THEN m ELSE 0]
    /\ \E i \in CheckInlineTags :
          mem = [a \in Addrs |-> IF a = Granule - 1 THEN i ELSE 0]

\* An access into granule 0 through a pointer with any tag.
AccessAny ==
    \E t \in CheckPtrTags, lo \in 0 .. Granule - 1,
       sizeIdx \in AccessSizeIndexes, isWrite \in BOOLEAN :
        StartAccess(tagPointer(cfg, [top |-> UntaggedTop(cfg), low |-> lo], t),
                    sizeIdx, isWrite)

NextCheck ==
    \/ AccessAny
    \/ InlineCheckStep

SpecCheck == InitCheck /\ [][NextCheck]_vars

\* The condition under which the claim says the check faults, stated on the
\* access and the memory it targets.
FaultCondition ==
    LET ptrTag == PtrTagOf(cfg, aPtr)
        memTag == shadow[memToShadow(aPtr.low)]
        lastByte == mem[OrLow4(aPtr.low)]
    IN /\ ptrTag # memTag
       /\ (cfg.MatchAllTag = -1 \/ ptrTag # cfg.MatchAllTag)
       /\ \/ memTag > 15
          \/ AndLow4(aPtr.low) + (Pow2(aSizeIdx) - 1) >= memTag
          \/ lastByte # ptrTag

\* C1: the inline check reaches the fault sequence exactly when the pointer
\* tag differs from the memory tag, no match-all tag equals the pointer tag,
\* and the memory tag is > 15, or low bits + size - 1 >= memory tag, or the
\* granule's last byte differs from the pointer tag; otherwise the access
\* runs without a fault.
InlineCheckFaultsExactlyWhen ==
    /\ pc = "fail" => FaultCondition
    /\ pc \in {"access", "done", "abort"} => (trapCount > 0 <=> FaultCondition)

\* C1 witness: a short granule whose bound the access ends on exactly
\* (equality) has faulted.
WitnessFaultOnShortGranuleEquality ==
    /\ pc = "fail"
    /\ rMemTag \in 1 .. 15
    /\ rPtrTag # rMemTag
    /\ PtrLowBits(aPtr, aSizeIdx) = rMemTag

----------------------------------------------------------------------------
(* Specification of the codec: the operations applied to every p and t.    *)

\* Top bytes of the pointers handed to the codec: user and kernel canonical
\* addresses, and bytes that set the bits next to the tag field.
CodecTops == {0, 1, 42, 126, 128, 213, 255}

\* Values of bits 0..55 of the pointers handed to the codec.
CodecLows == {0, 4660}

CodecCfgs ==
    {[DefaultCfg EXCEPT !.arch = a, !.CompileKernel = k] :
        a \in Archs, k \in BOOLEAN}

InitCodec ==
    /\ ExtIdle
    /\ cfg \in CodecCfgs
    /\ cIn \in [top : CodecTops, low : CodecLows]
    /\ cT \in Byte
    /\ cTagged = NoPtr
    /\ cUntagTagged = NoPtr
    /\ cUntagPlain = NoPtr
    /\ cRetag = NoPtr
    /\ CheckIdle
    /\ MemZero
    /\ StackIdle
    /\ GlobalsIdle

DoTagPointer ==
    /\ cTagged = NoPtr
    /\ cTagged' = tagPointer(cfg, cIn, cT)
    /\ UNCHANGED <<cfg, cIn, cT, cUntagTagged, cUntagPlain, cRetag,
                   notCodecVars>>

DoUntagTagged ==
    /\ cTagged # NoPtr
    /\ cUntagTagged = NoPtr
    /\ cUntagTagged' = untagPointer(cfg, cTagged)
    /\ UNCHANGED <<cfg, cIn, cT, cTagged, cUntagPlain, cRetag,
                   notCodecVars>>

DoUntagPlain ==
    /\ cUntagPlain = NoPtr
    /\ cUntagPlain' = untagPointer(cfg, cIn)
    /\ UNCHANGED <<cfg, cIn, cT, cTagged, cUntagTagged, cRetag,
                   notCodecVars>>

\* instrumentStack: tagPointer(untagPointer(AILong), Tag).
DoTagUntagged ==
    /\ cUntagPlain # NoPtr
    /\ cRetag = NoPtr
    /\ cRetag' = tagPointer(cfg, cUntagPlain, cT)
    /\ UNCHANGED <<cfg, cIn, cT, cTagged, cUntagTagged, cUntagPlain,
                   notCodecVars>>

NextCodec ==
    \/ DoTagPointer
    \/ DoUntagTagged
    \/ DoUntagPlain
    \/ DoTagUntagged

SpecCodec == InitCodec /\ [][NextCodec]_vars

----------------------------------------------------------------------------
(* Claims about the codec.                                                 *)

\* C3: for every pointer p and tag t in 0..255, in user and kernel mode and
\* for both (shift, mask) pairs, untagPointer(tagPointer(p, t)) equals
\* untagPointer(p).
UntagOfTagIsUntag ==
    (cUntagTagged # NoPtr /\ cUntagPlain # NoPtr) => cUntagTagged = cUntagPlain

\* C4: for every p returned by untagPointer and every t in 0..255, the tag
\* the check extracts from tagPointer(p, t) is t mod (TagMaskByte + 1).
ExtractedTagIsTagModMask ==
    cRetag # NoPtr => PtrTagOf(cfg, cRetag) = cT % (TagMaskByte(cfg) + 1)

\* C2 as stated: under the inline strategy with recovery disabled, an 8-byte
\* write through a pointer whose tag differs from the shadow tag at its
\* target never reaches the store without the fault sequence having run.
WriteThroughMismatchedTagFaultsFirst ==
    ( /\ Strategy(cfg) = "inline"
      /\ ~cfg.Recover
      /\ aIsWrite
      /\ aSizeIdx = 3
      /\ pc \in {"access", "done"}
      /\ PtrTagOf(cfg, aPtr) # shadow[memToShadow(aPtr.low)] )
    => trapCount > 0

\* C2 as amended: under the inline strategy with recovery disabled, an 8-byte
\* write through a pointer whose tag differs from the shadow tag, is not the
\* match-all tag, and is not admitted by a short-granule marker (the shadow
\* tag is > 15, or low bits + 7 >= shadow tag, or the granule's last byte
\* differs from the pointer tag) runs the fault sequence and never reaches
\* the store.
WriteFaultPrecedesStore ==
    ( /\ Strategy(cfg) = "inline"
      /\ ~cfg.Recover
      /\ aIsWrite
      /\ aSizeIdx = 3
      /\ pc # "idle"
      /\ FaultCondition )
    => /\ ~accessed
       /\ pc \in {"head", "check", "lowbits", "inline", "fail", "abort"}
       /\ pc = "abort" => trapCount = 1

\* C2 witness: an 8-byte write with a mismatching tag has trapped, without
\* recovery, and the store has not run.
WitnessWriteTrappedBeforeStore ==
    /\ pc = "abort"
    /\ ~cfg.Recover
    /\ aIsWrite
    /\ aSizeIdx = 3
    /\ rPtrTag # rMemTag
    /\ trapCount = 1
    /\ ~accessed

----------------------------------------------------------------------------
(* Stack tags: getStackBaseTag, getUARTag, retagMask, getAllocaTag.        *)

\* The table with its last entry equal to its second.
FastMasksRepeatedEntry ==
    <<0,   128, 64, 192, 32,  96,  224, 112, 240, 48, 16,  120,
      248, 56,  24, 8,   124, 252, 60,  28,  12,  4,  126, 254,
      62,  30,  14, 6,   2,   127, 63,  31,  15,  7,  3,   128>>

\* static const unsigned FastMasks[]
FastMasks ==
    <<0,   128, 64, 192, 32,  96,  224, 112, 240, 48, 16,  120,
      248, 56,  24, 8,   124, 252, 60,  28,  12,  4,  126, 254,
      62,  30,  14, 6,   2,   127, 63,  31,  15,  7,  3,   1>>

\* A retagMask whose table index wraps at 32.
retagMaskShortTable(c, AllocaNo) ==
    IF IsX86_64(c) THEN And8(AllocaNo % 256, TagMaskByte(c))
    ELSE FastMasks[(AllocaNo % 32) + 1]

retagMask(c, AllocaNo) ==
    IF IsX86_64(c) THEN And8(AllocaNo % 256, TagMaskByte(c))
    ELSE FastMasks[(AllocaNo % Len(FastMasks)) + 1]

\* applyTagMask, on the low byte of the value.
applyTagMask(c, OldTag) ==
    IF TagMaskByte(c) = 255 THEN OldTag ELSE And8(OldTag, TagMaskByte(c))

\* getStackBaseTag: null with generated tags, else the StackBaseTag member
\* when the prologue set it, else SP ^ (SP >> 20), masked.
getStackBaseTag(c, base, SP) ==
    IF c.ClGenerateTagsWithCalls THEN -1
    ELSE IF base # -1 THEN base
    ELSE applyTagMask(c, Xor8(SP.lo, SP.mid))

\* getUARTag: SP >> PointerTagShift, masked.
getUARTag(c, SP) == applyTagMask(c, SP.top \div Pow2(TopByteShift(c)))

getAllocaTagOr(c, stackTag, AllocaNo, generated) ==
    IF c.ClGenerateTagsWithCalls THEN generated
    ELSE Or8(stackTag, retagMask(c, AllocaNo))

\* getAllocaTag: the runtime's generated tag, or StackTag ^ retagMask(N).
getAllocaTag(c, stackTag, AllocaNo, generated) ==
    IF c.ClGenerateTagsWithCalls THEN generated
    ELSE Xor8(stackTag, retagMask(c, AllocaNo))

----------------------------------------------------------------------------
(* tagAlloca: the stores it emits, as records [kind, at, val]; kind is     *)
(* "shadow" (at: a shadow byte index) or "mem" (at: an application byte).  *)

\* __hwasan_tag_memory(ptr, tag, size): the runtime fills the shadow of
\* [ptr, ptr + size) with the tag.
HwasanTagMemory(base, tag, size) ==
    {[kind |-> "shadow", at |-> memToShadow(base) + i, val |-> tag] :
        i \in 0 .. (size \div Granule) - 1}

\* A tagAlloca that passes Size instead of AlignedSize to the runtime and
\* rounds the inline shadow size down from the unaligned size.
tagAllocaUnaligned(c, base, tag, size) ==
    IF c.InstrumentWithCalls
    THEN HwasanTagMemory(base, tag % 256, size)
    ELSE {[kind |-> "shadow", at |-> memToShadow(base) + i, val |-> tag % 256] :
              i \in 0 .. (size \div Granule) - 1}

\* A tagAlloca that stores the short-granule tag at offset Size - 1.
tagAllocaTagAtSize(c, base, tag, size) ==
    LET AlignedSize == alignTo(size)
        Size == IF c.UseShortGranules THEN size ELSE AlignedSize
        ShadowSize == Size \div Granule
    IN IF c.InstrumentWithCalls
       THEN HwasanTagMemory(base, tag % 256, AlignedSize)
       ELSE {[kind |-> "shadow", at |-> memToShadow(base) + i,
              val |-> tag % 256] : i \in 0 .. ShadowSize - 1}
            \cup
            IF Size # AlignedSize
            THEN {[kind |-> "shadow", at |-> memToShadow(base) + ShadowSize,
                   val |-> Size % Granule],
                  [kind |-> "mem", at |-> base + Size - 1, val |-> tag % 256]}
            ELSE {}

\* A tagAlloca that fills the last, partial granule with the tag as well.
tagAllocaNoRemainder(c, base, tag, size) ==
    LET AlignedSize == alignTo(size)
    IN IF c.InstrumentWithCalls
       THEN HwasanTagMemory(base, tag % 256, AlignedSize)
       ELSE {[kind |-> "shadow", at |-> memToShadow(base) + i,
              val |-> tag % 256] : i \in 0 .. (AlignedSize \div Granule) - 1}
            \cup
            IF c.UseShortGranules /\ size # AlignedSize
            THEN {[kind |-> "mem", at |-> base + AlignedSize - 1,
                   val |-> tag % 256]}
            ELSE {}

tagAlloca(c, base, tag, size) ==
    LET AlignedSize == alignTo(size)
        Size == IF c.UseShortGranules THEN size ELSE AlignedSize
        ShadowSize == Size \div Granule
    IN IF c.InstrumentWithCalls
       THEN HwasanTagMemory(base, tag % 256, AlignedSize)
       ELSE \* memset(ShadowPtr, Tag, ShadowSize)
            {[kind |-> "shadow", at |-> memToShadow(base) + i,
              val |-> tag % 256] : i \in 0 .. ShadowSize - 1}
            \cup
            IF Size # AlignedSize
            THEN {[kind |-> "shadow", at |-> memToShadow(base) + ShadowSize,
                   val |-> Size % Granule],
                  [kind |-> "mem", at |-> base + AlignedSize - 1,
                   val |-> tag % 256]}
            ELSE {}

\* Memory after the stores of one tagAlloca (they hit distinct bytes).
ShadowAfter(sh, writes) ==
    [g \in Granules |->
        IF \E w \in writes : w.kind = "shadow" /\ w.at = g
        THEN (CHOOSE w \in writes : w.kind = "shadow" /\ w.at = g).val
        ELSE sh[g]]

MemAfter(m, writes) ==
    [a \in Addrs |->
        IF \E w \in writes : w.kind = "mem" /\ w.at = a
        THEN (CHOOSE w \in writes : w.kind = "mem" /\ w.at = a).val
        ELSE m[a]]

----------------------------------------------------------------------------
(* One instrumented function with one instrumented allocation at address   *)
(* AllocaBase: prologue, replacement of the alloca, tagging, untagging.    *)

\* The address of the alloca (bits 0..55), granule-aligned by
\* alignAndPadAlloca.
AllocaBase == 0

\* AILong, the address of the alloca as the frame holds it.
AILong(c) == [top |-> UntaggedTop(c), low |-> AllocaBase]

\* sanitizeFunction: emitPrologue, then getStackBaseTag and getUARTag.
Prologue ==
    /\ fpc = "entry"
    /\ LET base == IF cfg.FrameRecordInstr THEN ThreadLong ELSE -1
       IN /\ StackBaseTag' = base
          /\ StackTag' = getStackBaseTag(cfg, base, CachedSP)
    /\ UARTag' = getUARTag(cfg, CachedSP)
    /\ fpc' = "prologue"
    /\ UNCHANGED <<cfg, CachedSP, ThreadLong, aiNo, aiSize, AllocaTag,
                   Replacement, lastWrites, memVars, checkVars, codecVars,
                   globalVars, extVars>>

\* The tags __hwasan_generate_tag may return.
GeneratedTags == {0, 7, 42, 200}

\* The runtime returns tags of the target's tag width.
GeneratedTagsOf(c) == {t \in GeneratedTags : t <= TagMaskByte(c)}

\* instrumentStack: Tag and Replacement of the allocation.
ReplaceAlloca ==
    /\ fpc = "prologue"
    /\ \E generated \in
            (IF cfg.ClGenerateTagsWithCalls THEN GeneratedTagsOf(cfg)
             ELSE {0}) :
          AllocaTag' = getAllocaTag(cfg, StackTag, aiNo, generated)
    /\ Replacement' = tagPointer(cfg, untagPointer(cfg, AILong(cfg)),
                                 AllocaTag')
    /\ fpc' = "replaced"
    /\ UNCHANGED <<cfg, CachedSP, ThreadLong, StackBaseTag, StackTag, UARTag,
                   aiNo, aiSize, lastWrites, memVars, checkVars, codecVars,
                   globalVars, extVars>>

\* instrumentStack: tagAlloca(IRB, AI, Tag, Size).
TagStart ==
    /\ fpc = "replaced"
    /\ pc = "idle"
    /\ LET writes == tagAlloca(cfg, AllocaBase, AllocaTag, aiSize)
       IN /\ lastWrites' = writes
          /\ shadow' = ShadowAfter(shadow, writes)
          /\ mem' = MemAfter(mem, writes)
    /\ fpc' = "tagged"
    /\ UNCHANGED <<cfg, CachedSP, ThreadLong, StackBaseTag, StackTag, UARTag,
                   aiNo, aiSize, AllocaTag, Replacement, checkVars, codecVars,
                   globalVars, extVars>>

\* instrumentStack, TagEnd: tagAlloca(IRB, AI, UARTag, AlignedSize).
TagEnd ==
    /\ fpc = "tagged"
    /\ pc \in {"idle", "done"}
    /\ LET writes == tagAlloca(cfg, AllocaBase, UARTag, alignTo(aiSize))
       IN /\ lastWrites' = writes
          /\ shadow' = ShadowAfter(shadow, writes)
          /\ mem' = MemAfter(mem, writes)
    /\ fpc' = "untagged"
    /\ UNCHANGED <<cfg, CachedSP, ThreadLong, StackBaseTag, StackTag, UARTag,
                   aiNo, aiSize, AllocaTag, Replacement, checkVars, codecVars,
                   globalVars, extVars>>

----------------------------------------------------------------------------
(* Specification of the tags: every frame address, thread slot value and   *)
(* allocation index.                                                       *)

\* The largest allocation index; FastMasks has 36 entries and the mask of
\* x86_64 has 64 values.
MaxAllocaNo == 70

\* Bits 0..7 of the frame address (16-byte aligned frames) and bits 20..27.
SPLows == {0, 16, 240}
SPMids == {0, 16, 31, 100, 255}
SPTops == {0, 255}
ThreadLongs == {0, 9, 100}

TagCfgs ==
    {[DefaultCfg EXCEPT !.arch = a, !.CompileKernel = k,
                        !.ClGenerateTagsWithCalls = g,
                        !.FrameRecordInstr = f] :
        a \in Archs, k \in BOOLEAN, g \in BOOLEAN, f \in BOOLEAN}

InitTags ==
    /\ ExtIdle
    /\ cfg \in TagCfgs
    /\ CodecIdle
    /\ CheckIdle
    /\ MemZero
    /\ GlobalsIdle
    /\ fpc = "entry"
    /\ CachedSP \in [top : SPTops, mid : SPMids, lo : SPLows]
    /\ ThreadLong \in (IF cfg.FrameRecordInstr THEN ThreadLongs ELSE {0})
    /\ StackBaseTag = -1
    /\ StackTag = -1
    /\ UARTag = -1
    /\ aiNo \in 0 .. MaxAllocaNo
    /\ aiSize = Granule
    /\ AllocaTag = -1
    /\ Replacement = NoPtr
    /\ lastWrites = {}

NextTags ==
    \/ Prologue
    \/ ReplaceAlloca

SpecTags == InitTags /\ [][NextTags]_vars

\* C8 as stated: every tag assigned to an instrumented stack allocation
\* (base tag XOR retagMask(N)) lies outside the range [0, 15].
AllocaTagOutsideShortRange ==
    (AllocaTag # -1 /\ ~cfg.ClGenerateTagsWithCalls) => AllocaTag \notin 0 .. 15

\* C8 as amended: the tag assigned to an instrumented stack allocation is
\* base tag XOR retagMask(N), and it lies in [0, 15] exactly when the base
\* tag and retagMask(N) agree in bits 4..7 (it is 0 when they are equal).
AllocaTagInShortRangeIffHighBitsAgree ==
    (AllocaTag # -1 /\ ~cfg.ClGenerateTagsWithCalls) =>
        /\ AllocaTag \in Byte
        /\ (AllocaTag \in 0 .. 15) <=>
               (StackTag \div 16 = retagMask(cfg, aiNo) \div 16)
        /\ (AllocaTag = 0) <=> (StackTag = retagMask(cfg, aiNo))

\* C8 witness: an allocation got a tag inside [0, 15] from a base tag and a
\* non-zero retag mask.
WitnessAllocaTagInShortRange ==
    /\ AllocaTag \in 1 .. 15
    /\ ~cfg.ClGenerateTagsWithCalls
    /\ retagMask(cfg, aiNo) # 0
    /\ StackTag > 15

----------------------------------------------------------------------------
(* Specification of tagAlloca: every allocation size, with and without     *)
(* short granules, inline and call-based, on shadow that holds old tags.   *)

\* What the shadow of the frame holds before the function tags it.
ShadowFills == {0, 170}

AllocaCfgs ==
    {[DefaultCfg EXCEPT !.arch = a, !.UseShortGranules = u,
                        !.InstrumentWithCalls = w,
                        !.ClGenerateTagsWithCalls = TRUE] :
        a \in Archs, u \in BOOLEAN, w \in BOOLEAN}

InitAlloca ==
    /\ ExtIdle
    /\ cfg \in AllocaCfgs
    /\ CodecIdle
    /\ CheckIdle
    /\ GlobalsIdle
    /\ \E f \in ShadowFills : shadow = [g \in Granules |-> f]
    /\ mem = [a \in Addrs |-> 0]
    /\ fpc = "entry"
    /\ CachedSP \in [top : SPTops, mid : {0}, lo : {0}]
    /\ ThreadLong = 0
    /\ StackBaseTag = -1
    /\ StackTag = -1
    /\ UARTag = -1
    /\ aiNo = 0
    /\ aiSize \in 1 .. MaxAllocaSize
    /\ AllocaTag = -1
    /\ Replacement = NoPtr
    /\ lastWrites = {}

NextAlloca ==
    \/ Prologue
    \/ ReplaceAlloca
    \/ TagStart
    \/ TagEnd

SpecAlloca == InitAlloca /\ [][NextAlloca]_vars

ShadowWrites == {w \in lastWrites : w.kind = "shadow"}
MemWrites == {w \in lastWrites : w.kind = "mem"}

InlineShortGranules == cfg.UseShortGranules /\ ~cfg.InstrumentWithCalls

\* C5 as stated: with short granules and inline tagging, for every size s
\* tagAlloca leaves the shadow holding floor(s/g) bytes equal to the tag
\* followed by one byte equal to s mod g.
ShadowHoldsTagsThenRemainder ==
    (fpc = "tagged" /\ InlineShortGranules) =>
        /\ \A i \in 0 .. (aiSize \div Granule) - 1 : shadow[i] = AllocaTag
        /\ shadow[aiSize \div Granule] = aiSize % Granule

\* C5 as amended: with short granules and inline tagging, tagAlloca leaves
\* floor(s/g) shadow bytes equal to the tag; when s is not a multiple of g
\* they are followed by one byte equal to s mod g, and when s is a multiple
\* of g no remainder byte is written: the next shadow byte keeps its value.
ShadowHoldsTagsThenRemainderIfPartial ==
    (fpc = "tagged" /\ InlineShortGranules) =>
        /\ \A i \in 0 .. (aiSize \div Granule) - 1 : shadow[i] = AllocaTag
        /\ aiSize % Granule # 0 => shadow[aiSize \div Granule] = aiSize % Granule
        /\ aiSize % Granule = 0 =>
              /\ \A w \in ShadowWrites : w.at < aiSize \div Granule
              /\ shadow[aiSize \div Granule] \in ShadowFills

\* C5 witness: a 20-byte allocation, granule 16: the tag in shadow byte 0 and
\* 4 in shadow byte 1.
WitnessTwentyByteShadow ==
    /\ fpc = "tagged"
    /\ InlineShortGranules
    /\ aiSize = 20
    /\ AllocaTag = 42
    /\ shadow[0] = 42
    /\ shadow[1] = 4

\* C6 as stated (on the inline path): with short granules, when an
\* allocation whose size s is not a multiple of the granule is tagged, the
\* tag is stored in the allocation's byte at offset s - 1.
TagDuplicatedAtSizeMinusOne ==
    (fpc = "tagged" /\ InlineShortGranules /\ aiSize % Granule # 0) =>
        mem[AllocaBase + aiSize - 1] = AllocaTag

\* C6 as amended: with short granules and inline tagging, when an allocation
\* whose size s is not a multiple of the granule is tagged, the tag is stored
\* in the byte at offset alignTo(s, g) - 1, the last byte of the allocation's
\* last granule (offset 31 for s = 20, g = 16), and in no other byte.
TagDuplicatedAtLastByteOfGranule ==
    (fpc = "tagged" /\ InlineShortGranules /\ aiSize % Granule # 0) =>
        /\ mem[AllocaBase + alignTo(aiSize) - 1] = AllocaTag
        /\ MemWrites = {[kind |-> "mem", at |-> AllocaBase + alignTo(aiSize) - 1,
                         val |-> AllocaTag]}

\* C6 witness: a 20-byte allocation has its tag at offset 31, not at 19.
WitnessTagAtOffsetThirtyOne ==
    /\ fpc = "tagged"
    /\ InlineShortGranules
    /\ aiSize = 20
    /\ AllocaTag = 42
    /\ mem[31] = 42
    /\ mem[19] = 0

\* C7: every tagging and every untagging of an allocation of size s writes
\* exactly the ceil(s/g) shadow bytes of its granule-aligned size, once each,
\* inline and call-based; with short granules disabled all of them hold the
\* tag and no byte of the allocation is written.
ShadowWritesCoverAlignedSize ==
    fpc \in {"tagged", "untagged"} =>
        LET tag == IF fpc = "tagged" THEN AllocaTag ELSE UARTag
            n == alignTo(aiSize) \div Granule
        IN /\ {w.at : w \in ShadowWrites} = 0 .. n - 1
           /\ Cardinality(ShadowWrites) = n
           /\ (~cfg.UseShortGranules \/ fpc = "untagged") =>
                 /\ \A w \in ShadowWrites : w.val = tag
                 /\ \A i \in 0 .. n - 1 : shadow[i] = tag
                 /\ MemWrites = {}

\* C7 witness: the untagging of a 20-byte allocation has written two shadow
\* bytes.
WitnessUntagWritesTwoGranules ==
    /\ fpc = "untagged"
    /\ aiSize = 20
    /\ cfg.UseShortGranules
    /\ Cardinality(ShadowWrites) = 2
    /\ shadow[1] = UARTag

----------------------------------------------------------------------------
(* Specification of the stack: one allocation is tagged, accessed through  *)
(* its replacement pointer, untagged, and accessed again.                  *)

StackSizes == {16, 20}

\* The largest allocation index of the stack specification.
MaxStackAllocaNo == 1

\* initializeModule: MatchAllTag is 0xFF in the kernel when the flag is unset.
StackCfgs ==
    {[DefaultCfg EXCEPT !.arch = a, !.CompileKernel = k,
                        !.UseShortGranules = u,
                        !.MatchAllTag = IF k THEN 255 ELSE -1] :
        a \in Archs, k \in BOOLEAN, u \in BOOLEAN}

InitStack ==
    /\ ExtIdle
    /\ cfg \in StackCfgs
    /\ CodecIdle
    /\ CheckIdle
    /\ GlobalsIdle
    /\ MemZero
    /\ fpc = "entry"
    /\ CachedSP \in [top : SPTops, mid : {0, 100}, lo : {0, 16}]
    /\ ThreadLong = 0
    /\ StackBaseTag = -1
    /\ StackTag = -1
    /\ UARTag = -1
    /\ aiNo \in 0 .. MaxStackAllocaNo
    /\ aiSize \in StackSizes
    /\ AllocaTag = -1
    /\ Replacement = NoPtr
    /\ lastWrites = {}

\* An access of 1, 2, 4, 8 or 16 bytes inside the allocation, through the
\* replacement pointer.
AccessAlloca ==
    /\ fpc \in {"tagged", "untagged"}
    /\ \E sizeIdx \in AccessSizeIndexes :
       \E off \in 0 .. aiSize - Pow2(sizeIdx) :
          StartAccess([Replacement EXCEPT !.low = @ + off], sizeIdx, FALSE)

\* The access is over; the function goes on.
FinishAccess ==
    /\ pc = "done"
    /\ pc' = "idle"
    /\ aPtr' = NoPtr
    /\ aSizeIdx' = 0
    /\ aIsWrite' = FALSE
    /\ rPtrTag' = 0
    /\ rMemTag' = 0
    /\ trapCount' = 0
    /\ accessed' = FALSE
    /\ UNCHANGED <<cfg, memVars, notCheckVars>>

NextStack ==
    \/ Prologue
    \/ ReplaceAlloca
    \/ TagStart
    \/ AccessAlloca
    \/ InlineCheckStep
    \/ FinishAccess
    \/ TagEnd

SpecStack == InitStack /\ [][NextStack]_vars

\* C10: after a stack allocation has been untagged, every later access
\* through the pointer that carries the allocation's tag fails the tag
\* check.
AccessAfterUntagFaults ==
    (fpc = "untagged" /\ pc \in {"access", "done"}) => trapCount > 0

----------------------------------------------------------------------------
(* Tags of globals (instrumentGlobals).                                    *)

\* The largest number of eligible globals of a module.
MaxGlobals == 4

\* The loop condition without the upper bound of the tag range.
TagLeavesRangeLowOnly(c, tag) == tag < 16

\* Tag < 16 || Tag > TagMaskByte
TagLeavesRange(c, tag) == tag < 16 \/ tag > TagMaskByte(c)

\* One iteration of the loop over Globals: instrumentGlobal(GV, Tag++), Tag
\* a uint8_t.
InstrumentNextGlobal ==
    /\ gLeft > 0
    /\ LET tag == IF TagLeavesRange(cfg, gTag) THEN 16 ELSE gTag
       IN /\ gAssigned' = Append(gAssigned, tag)
          /\ gTag' = (tag + 1) % 256
    /\ gLeft' = gLeft - 1
    /\ UNCHANGED <<cfg, codecVars, memVars, checkVars, stackVars, extVars>>

GlobalCfgs == {[DefaultCfg EXCEPT !.arch = a] : a \in Archs}

\* Tag = Hash[0], the first byte of the MD5 of the source file name.
InitGlobals ==
    /\ ExtIdle
    /\ cfg \in GlobalCfgs
    /\ CodecIdle
    /\ CheckIdle
    /\ MemZero
    /\ StackIdle
    /\ gTag \in Byte
    /\ gLeft \in 0 .. MaxGlobals
    /\ gAssigned = <<>>

NextGlobals == InstrumentNextGlobal

SpecGlobals == InitGlobals /\ [][NextGlobals]_vars

\* C9: for every seed byte, both values of TagMaskByte and every number of
\* globals, each tag given to a global lies in [16, TagMaskByte], and each
\* is the previous global's tag plus one, a value outside [16, TagMaskByte]
\* being replaced by 16.
GlobalTagsInRangeAndSequential ==
    \A i \in 1 .. Len(gAssigned) :
        /\ gAssigned[i] \in 16 .. TagMaskByte(cfg)
        /\ i > 1 =>
              gAssigned[i] = IF gAssigned[i - 1] + 1 \in 16 .. TagMaskByte(cfg)
                             THEN gAssigned[i - 1] + 1
                             ELSE 16

\* C9 witness: the tags have wrapped from TagMaskByte back to 16.
WitnessGlobalTagWrapped ==
    \E i \in 2 .. Len(gAssigned) :
        /\ gAssigned[i - 1] = TagMaskByte(cfg)
        /\ gAssigned[i] = 16

----------------------------------------------------------------------------
(* Lifetimes (instrumentStack): where the tagging and the untagging of an  *)
(* allocation are inserted, and what the instrumented function then does.  *)
(* A function is [code, succ, exits]: code[b] is the sequence of the       *)
(* instructions of block b ("alloca", "start", "end", "use", "ret", "unk": *)
(* a lifetime marker of no known allocation, "call_rt": a call that may    *)
(* return twice), succ[b] the blocks b branches to, and exits what the     *)
(* reachable-exits query answers for the allocation's lifetime start: the  *)
(* instructions it calls back on and whether it reports success.           *)

Sites(f) ==
    UNION {{<<b, i>> : i \in 1 .. Len(f.code[b])} : b \in 1 .. Len(f.code)}

KindAt(f, s) == f.code[s[1]][s[2]]

SitesOfKind(f, k) == {s \in Sites(f) : KindAt(f, s) = k}

\* StackInfo, as StackInfoBuilder fills it for the function.
LifetimeStart(f) == SitesOfKind(f, "start")
LifetimeEnd(f) == SitesOfKind(f, "end")
RetVec(f) == SitesOfKind(f, "ret")
UnrecognizedLifetimes(f) == SitesOfKind(f, "unk")
CallsReturnTwice(f) == SitesOfKind(f, "call_rt") # {}
AllocaSite(f) == CHOOSE s \in SitesOfKind(f, "alloca") : TRUE

\* memtag::isStandardLifetime: exactly one start marker (so no path reaches
\* a second one).
isStandardLifetime(f) == Cardinality(LifetimeStart(f)) = 1

\* memtag::forAllReachableExits(.., Start, LifetimeEnd, RetVec, TagEnd): the
\* instructions TagEnd is called on, and the result.
forAllReachableExits(f) == f.exits

StandardLifetimeUnlessRecognized(f) ==
    /\ UnrecognizedLifetimes(f) # {}
    /\ isStandardLifetime(f)
    /\ ~CallsReturnTwice(f)

\* bool StandardLifetime
StandardLifetime(f) ==
    /\ UnrecognizedLifetimes(f) = {}
    /\ isStandardLifetime(f)
    /\ ~CallsReturnTwice(f)

\* The branch taken: DetectUseAfterScope && StandardLifetime.
TakesStandardBranch(c, f) == c.DetectUseAfterScope /\ StandardLifetime(f)

\* The instructions after which tagAlloca(IRB, AI, Tag, Size) is inserted.
TagSites(c, f) ==
    IF TakesStandardBranch(c, f) THEN LifetimeStart(f) ELSE {AllocaSite(f)}

UntagSitesAtEnds(c, f) ==
    IF TakesStandardBranch(c, f) THEN forAllReachableExits(f).at
    ELSE LifetimeEnd(f)

\* The instructions before which TagEnd inserts the untagging.
UntagSites(c, f) ==
    IF TakesStandardBranch(c, f) THEN forAllReachableExits(f).at
    ELSE RetVec(f)

ErasedMarkersKeepEnds(c, f) ==
    UnrecognizedLifetimes(f) \cup
    (IF TakesStandardBranch(c, f) THEN {}
     ELSE LifetimeStart(f) \cup LifetimeEnd(f))

\* The lifetime markers erased (eraseFromParent).
ErasedMarkers(c, f) ==
    UnrecognizedLifetimes(f) \cup
    (IF TakesStandardBranch(c, f)
     THEN (IF ~forAllReachableExits(f).ok THEN LifetimeEnd(f) ELSE {})
     ELSE LifetimeStart(f) \cup LifetimeEnd(f))

\* instrumentStack, for the function's allocation.
instrumentStack ==
    /\ ~plan.done
    /\ plan' = [done |-> TRUE,
                standard |-> TakesStandardBranch(cfg, fn),
                tagAfter |-> TagSites(cfg, fn),
                untagBefore |-> UntagSites(cfg, fn),
                erased |-> ErasedMarkers(cfg, fn)]
    /\ UNCHANGED <<cfg, codecVars, memVars, checkVars, stackVars, globalVars,
                   fn, at, evs, passVars, moduleVars, ringVars, instrVars>>

\* The longest run of the instrumented function that is followed, in events.
MaxEvents == 6

Returned == <<0, 0>>

\* The instrumented function executes the instruction at `at`, with the
\* untagging inserted in front of it and the tagging inserted behind it.
ExecInstr ==
    /\ plan.done
    /\ fpc = "replaced"
    /\ at # Returned
    /\ Len(evs) < MaxEvents
    /\ LET kind == KindAt(fn, at)
           untag == at \in plan.untagBefore
           tag == at \in plan.tagAfter /\ kind # "ret"
           w1 == IF untag
                 THEN tagAlloca(cfg, AllocaBase, UARTag, alignTo(aiSize))
                 ELSE {}
           w2 == IF tag THEN tagAlloca(cfg, AllocaBase, AllocaTag, aiSize)
                 ELSE {}
           e1 == IF untag THEN <<[ev |-> "untag", site |-> at]>> ELSE <<>>
           e2 == IF kind = "ret" THEN <<[ev |-> "ret", site |-> at]>>
                 ELSE IF kind \in {"start", "end", "unk"}
                         /\ at \notin plan.erased
                 THEN <<[ev |-> kind, site |-> at]>>
                 ELSE <<>>
           e3 == IF tag THEN <<[ev |-> "tag", site |-> at]>> ELSE <<>>
       IN /\ evs' = evs \o e1 \o e2 \o e3
          /\ shadow' = ShadowAfter(ShadowAfter(shadow, w1), w2)
          /\ mem' = MemAfter(MemAfter(mem, w1), w2)
          /\ lastWrites' = IF tag THEN w2 ELSE IF untag THEN w1
                           ELSE lastWrites
          /\ IF kind = "ret" THEN at' = Returned
             ELSE IF at[2] < Len(fn.code[at[1]])
             THEN at' = <<at[1], at[2] + 1>>
             ELSE \E b \in fn.succ[at[1]] : at' = <<b, 1>>
    /\ UNCHANGED <<cfg, codecVars, checkVars, globalVars, fpc, CachedSP,
                   ThreadLong, StackBaseTag, StackTag, UARTag, aiNo, aiSize,
                   AllocaTag, Replacement, fn, plan, passVars, moduleVars,
                   ringVars, instrVars>>

\* The functions instrumented: the allocation with one lifetime on one path;
\* with an end in front of each of two returns; with a return that no end
\* covers (the reachable-exits query calls back on the returns and reports
\* failure); with two starts; without markers; with a call that may return
\* twice; with the lifetime inside a loop; with a marker of no known
\* allocation.
FnStraight ==
    [code |-> << <<"alloca", "start", "use", "end", "ret">> >>,
     succ |-> << {} >>,
     exits |-> [ok |-> TRUE, at |-> {<<1, 4>>}]]
FnTwoReturns ==
    [code |-> << <<"alloca", "start", "use">>, <<"end", "ret">>,
                 <<"use", "end", "ret">> >>,
     succ |-> << {2, 3}, {}, {} >>,
     exits |-> [ok |-> TRUE, at |-> {<<2, 1>>, <<3, 2>>}]]
FnUncoveredReturn ==
    [code |-> << <<"alloca", "start", "use">>, <<"end", "ret">>, <<"ret">> >>,
     succ |-> << {2, 3}, {}, {} >>,
     exits |-> [ok |-> FALSE, at |-> {<<2, 2>>, <<3, 1>>}]]
FnTwoStarts ==
    [code |-> << <<"alloca", "start", "use", "start", "use", "end", "ret">> >>,
     succ |-> << {} >>,
     exits |-> [ok |-> TRUE, at |-> {<<1, 6>>}]]
FnNoMarkers ==
    [code |-> << <<"alloca", "use">>, <<"ret">>, <<"use", "ret">> >>,
     succ |-> << {2, 3}, {}, {} >>,
     exits |-> [ok |-> TRUE, at |-> {}]]
FnReturnsTwice ==
    [code |-> << <<"alloca", "call_rt", "start", "use", "end", "ret">> >>,
     succ |-> << {} >>,
     exits |-> [ok |-> TRUE, at |-> {<<1, 5>>}]]
FnLoop ==
    [code |-> << <<"alloca">>, <<"start", "use", "end">>, <<"ret">> >>,
     succ |-> << {2}, {2, 3}, {} >>,
     exits |-> [ok |-> TRUE, at |-> {<<2, 3>>}]]
FnUnrecognized ==
    [code |-> << <<"alloca", "start", "unk", "use", "end", "ret">> >>,
     succ |-> << {} >>,
     exits |-> [ok |-> TRUE, at |-> {<<1, 5>>}]]

FnShapes ==
    {FnStraight, FnTwoReturns, FnUncoveredReturn, FnTwoStarts, FnNoMarkers,
     FnReturnsTwice, FnLoop, FnUnrecognized}

LifeCfgs ==
    {[DefaultCfg EXCEPT !.arch = a, !.UseShortGranules = u,
                        !.DetectUseAfterScope = d,
                        !.ClGenerateTagsWithCalls = TRUE] :
        a \in Archs, u \in BOOLEAN, d \in BOOLEAN}

InitLife ==
    /\ cfg \in LifeCfgs
    /\ CodecIdle
    /\ CheckIdle
    /\ GlobalsIdle
    /\ PassIdle
    /\ ModuleIdle
    /\ RingIdle
    /\ InstrIdle
    /\ MemZero
    /\ fn \in FnShapes
    /\ plan = [done |-> FALSE]
    /\ at = <<1, 1>>
    /\ evs = <<>>
    /\ fpc = "entry"
    /\ CachedSP = [top |-> 0, mid |-> 0, lo |-> 0]
    /\ ThreadLong = 0
    /\ StackBaseTag = -1
    /\ StackTag = -1
    /\ UARTag = -1
    /\ aiNo = 0
    /\ aiSize \in StackSizes
    /\ AllocaTag = -1
    /\ Replacement = NoPtr
    /\ lastWrites = {}

NextLife ==
    \/ instrumentStack
    \/ Prologue
    \/ ReplaceAlloca
    \/ ExecInstr

SpecLife == InitLife /\ [][NextLife]_vars

UntagWrites ==
    {[kind |-> "shadow", at |-> g, val |-> UARTag] :
        g \in 0 .. (alignTo(aiSize) \div Granule) - 1}

\* C11: for an allocation handled as non-standard, the use-after-return tag
\* is written over the whole granule-aligned region immediately before every
\* return and at no earlier point: each untagging is followed at once by the
\* return it stands in front of, each return is preceded at once by one
\* untagging, and a run that has returned has untagged exactly once.
NonStandardUntaggedExactlyAtReturn ==
    (plan.done /\ ~plan.standard) =>
        /\ \A i \in 1 .. Len(evs) :
              /\ evs[i].ev = "untag" =>
                    /\ i < Len(evs)
                    /\ evs[i + 1] = [ev |-> "ret", site |-> evs[i].site]
              /\ evs[i].ev = "ret" =>
                    /\ i > 1
                    /\ evs[i - 1] = [ev |-> "untag", site |-> evs[i].site]
        /\ at = Returned =>
              /\ Cardinality({i \in 1 .. Len(evs) : evs[i].ev = "untag"}) = 1
              /\ lastWrites = UntagWrites
              /\ \A g \in 0 .. (alignTo(aiSize) \div Granule) - 1 :
                    shadow[g] = UARTag

\* C11 witness: a non-standard 20-byte allocation of a function with two
\* returns was tagged, and untagged over both granules at the second return.
WitnessUntaggedAtSecondReturn ==
    /\ plan.done
    /\ ~plan.standard
    /\ fn = FnTwoReturns
    /\ aiSize = 20
    /\ AllocaTag = 42
    /\ at = Returned
    /\ evs = <<[ev |-> "tag", site |-> <<1, 1>>],
               [ev |-> "untag", site |-> <<3, 3>>],
               [ev |-> "ret", site |-> <<3, 3>>]>>
    /\ shadow[1] = UARTag

OneStartOneEnd ==
    /\ Cardinality(LifetimeStart(fn)) = 1
    /\ Cardinality(LifetimeEnd(fn)) = 1
    /\ ~CallsReturnTwice(fn)

HandledAsStandard ==
    /\ plan.standard
    /\ plan.tagAfter = LifetimeStart(fn)
    /\ plan.untagBefore = forAllReachableExits(fn).at

HandledAsNonStandard ==
    /\ ~plan.standard
    /\ plan.tagAfter = {AllocaSite(fn)}
    /\ plan.untagBefore = RetVec(fn)

\* C12 as stated: an allocation with exactly one start marker and one end
\* marker, in a function with no call that may return twice, is handled as
\* standard (tagged at its start marker, untagged at the exits reachable from
\* it); with a second start it is handled as non-standard (tagged right after
\* the allocation, untagged at every return).
OneStartOneEndIsStandard ==
    plan.done =>
        /\ OneStartOneEnd => HandledAsStandard
        /\ Cardinality(LifetimeStart(fn)) = 2 => HandledAsNonStandard

\* C12 as amended: the same, provided use-after-scope detection is enabled
\* and the function holds no lifetime marker of an unknown allocation;
\* without either, the allocation is handled as non-standard.
OneStartOneEndIsStandardWhenDetecting ==
    plan.done =>
        /\ (OneStartOneEnd /\ cfg.DetectUseAfterScope
              /\ UnrecognizedLifetimes(fn) = {}) => HandledAsStandard
        /\ (OneStartOneEnd /\ ~(cfg.DetectUseAfterScope
              /\ UnrecognizedLifetimes(fn) = {})) => HandledAsNonStandard
        /\ Cardinality(LifetimeStart(fn)) = 2 => HandledAsNonStandard

\* C12 witness: with detection enabled, a run of the one-lifetime function
\* tagged the allocation at its start marker and untagged it at its end.
WitnessTaggedAtStartMarker ==
    /\ plan.done
    /\ plan.standard
    /\ fn = FnStraight
    /\ at = Returned
    /\ evs = <<[ev |-> "start", site |-> <<1, 2>>],
               [ev |-> "tag", site |-> <<1, 2>>],
               [ev |-> "untag", site |-> <<1, 4>>],
               [ev |-> "end", site |-> <<1, 4>>],
               [ev |-> "ret", site |-> <<1, 5>>]>>

QueryFailed ==
    /\ plan.done
    /\ plan.standard
    /\ ~forAllReachableExits(fn).ok

----------------------------------------------------------------------------
(* Claims about retagMask.                                                 *)

\* The 36 masks, as the claim counts them.
TableSize == 36

ExpectedRetagMask ==
    IF IsX86_64(cfg) THEN aiNo % (TagMaskByte(cfg) + 1)
    ELSE FastMasks[(aiNo % TableSize) + 1]

\* C13: retagMask(N) depends on N and the architecture only: on the
\* table-based architectures it is entry (N mod 36) of the table, so
\* retagMask(N + 36) = retagMask(N); on x86_64 it is N & TagMaskByte; and the
\* tag of allocation N is the base tag XOR that mask.
RetagMaskCyclesOrMasks ==
    /\ retagMask(cfg, aiNo) = ExpectedRetagMask
    /\ ~IsX86_64(cfg) => retagMask(cfg, aiNo + TableSize) = retagMask(cfg, aiNo)
    /\ IsX86_64(cfg) =>
          retagMask(cfg, aiNo + TagMaskByte(cfg) + 1) = retagMask(cfg, aiNo)
    /\ (AllocaTag # -1 /\ ~cfg.ClGenerateTagsWithCalls) =>
          AllocaTag = Xor8(StackTag, ExpectedRetagMask)

\* C13 witness: allocation 37 got the mask of allocation 1 (128).
WitnessRetagMaskWrapped ==
    /\ fpc = "replaced"
    /\ ~IsX86_64(cfg)
    /\ ~cfg.ClGenerateTagsWithCalls
    /\ aiNo = TableSize + 1
    /\ StackTag = 16
    /\ AllocaTag = 144


\* The number of allocations after which the masks repeat.
RetagPeriod(c) == IF IsX86_64(c) THEN TagMaskByte(c) + 1 ELSE TableSize

\* C27: the 36 entries of the table are pairwise distinct and none is 255;
\* with tags derived from a base tag, the tag of an allocation equals the
\* tag the same base tag gives to another index exactly when the two
\* indices are a whole period apart (36 with the table, TagMaskByte + 1 on
\* x86_64), so allocations less than a period apart get different tags.
TagsWithinPeriodDiffer ==
    /\ Len(FastMasks) = TableSize
    /\ \A i, j \in 1 .. Len(FastMasks) :
          i # j => FastMasks[i] # FastMasks[j]
    /\ \A i \in 1 .. Len(FastMasks) : FastMasks[i] # 255
    /\ (fpc = "replaced" /\ ~cfg.ClGenerateTagsWithCalls) =>
          \A j \in 0 .. MaxAllocaNo :
             (getAllocaTag(cfg, StackTag, j, 0) = AllocaTag)
                <=> ((j - aiNo) % RetagPeriod(cfg) = 0)

\* Allocation 64 on x86_64 has the tag of allocation 0 and not the tag of
\* allocation 1 or 63.
WitnessTagReusedAfterPeriod ==
    /\ fpc = "replaced"
    /\ IsX86_64(cfg)
    /\ ~cfg.ClGenerateTagsWithCalls
    /\ aiNo = 64
    /\ AllocaTag = getAllocaTag(cfg, StackTag, 0, 0)
    /\ AllocaTag # getAllocaTag(cfg, StackTag, 1, 0)
    /\ AllocaTag # getAllocaTag(cfg, StackTag, 63, 0)
----------------------------------------------------------------------------
(* The globals of a module (instrumentGlobals, instrumentGlobal).  gModule *)
(* is the module's list of global values in creation order; every run of   *)
(* the pass constructs a HWAddressSanitizer, whose initializeModule calls  *)
(* instrumentGlobals.  gTag holds Hash[0], which depends on the source     *)
(* file name only and is the same in every run.                            *)

\* The largest number of runs of the pass over one module.
MaxRuns == 2

NoName == <<>>

\* A global variable of the source module.
SourceGlobal(name, size) ==
    [name |-> <<name>>, kind |-> "variable", linkage |-> "external",
     section |-> "", NoHWAddress |-> FALSE, declaration |-> FALSE,
     threadLocal |-> FALSE, size |-> size, padTag |-> -1, tag |-> -1,
     pos |-> 0, word |-> [hi |-> 0, lo |-> 0], addrTop |-> 0,
     ref |-> NoName]

\* GV.getName().startswith("llvm.")
HasLlvmName(gv) == gv.name[1] \in {"llvm.x", "llvm.compiler.used"}

\* The selection loop of instrumentGlobals: M.globals() visits the global
\* variables only, never the aliases.
SelectedGlobal(gv) ==
    /\ gv.kind = "variable"
    /\ ~gv.NoHWAddress
    /\ ~(gv.declaration \/ HasLlvmName(gv) \/ gv.threadLocal)
    /\ gv.linkage # "common"
    /\ gv.section = ""

RECURSIVE SelectGlobals(_)
SelectGlobals(mod) ==
    IF mod = <<>> THEN <<>>
    ELSE (IF SelectedGlobal(Head(mod)) THEN <<Head(mod)>> ELSE <<>>)
         \o SelectGlobals(Tail(mod))

RECURSIVE WithoutName(_, _)
WithoutName(mod, name) ==
    IF mod = <<>> THEN <<>>
    ELSE (IF Head(mod).name = name THEN <<>> ELSE <<Head(mod)>>)
         \o WithoutName(Tail(mod), name)

CompilerUsedName == <<"llvm.compiler.used">>

\* appendToCompilerUsed: the llvm.compiler.used array is erased and created
\* again with one more entry (size counts the entries).
appendToCompilerUsed(mod) ==
    LET old == SelectSeq(mod, LAMBDA gv : gv.name = CompilerUsedName)
        entries == IF old = <<>> THEN 0 ELSE old[1].size
    IN Append(WithoutName(mod, CompilerUsedName),
              [SourceGlobal("llvm.compiler.used", entries + 1)
                  EXCEPT !.linkage = "appending", !.section = "llvm.metadata"])

\* const uint64_t MaxDescriptorSize = 0xfffff0
MaxDescriptorSize == 16777200

\* A 32-bit word as its top byte and its low 24 bits.
Word32(hi, lo) == [hi |-> hi, lo |-> lo]

SizeAndTagShiftedBy16(Size, Tag) ==
    Word32((Size \div Pow2(24)) % 256,
           (Size % Pow2(16))
             + Or8((Size \div Pow2(16)) % 256, Tag) * Pow2(16))

\* Size | (uint32_t(Tag) << 24), Size a uint32_t.
SizeAndTag(Size, Tag) ==
    Word32(Or8((Size \div Pow2(24)) % 256, Tag), Size % Pow2(24))

\* std::min(SizeInBytes - DescriptorPos, MaxDescriptorSize)
DescriptorSize(SizeInBytes, DescriptorPos) ==
    IF SizeInBytes - DescriptorPos < MaxDescriptorSize
    THEN SizeInBytes - DescriptorPos ELSE MaxDescriptorSize

\* The names the symbol table gives to the second and later globals created
\* with a name already taken.
UniqueSuffix == <<".1", ".2", ".3", ".4", ".5", ".6", ".7", ".8">>

\* The descriptor loop of instrumentGlobal, from DescriptorPos on: one
\* descriptor for each MaxDescriptorSize bytes of the global, each appended
\* to llvm.compiler.used.
RECURSIVE Descriptors(_, _, _, _, _)
Descriptors(mod, GV, NewGV, Tag, DescriptorPos) ==
    IF ~(DescriptorPos < GV.size) THEN mod
    ELSE LET k == DescriptorPos \div MaxDescriptorSize
             Descriptor == [SourceGlobal("", 8) EXCEPT
                  !.name = GV.name \o <<".hwasan", ".descriptor">>
                           \o (IF k = 0 THEN <<>> ELSE <<UniqueSuffix[k]>>),
                  !.linkage = "private",
                  !.section = "hwasan_globals",
                  !.tag = Tag,
                  !.pos = DescriptorPos,
                  !.word = SizeAndTag(DescriptorSize(GV.size, DescriptorPos),
                                      Tag),
                  !.ref = NewGV.name]
         IN Descriptors(appendToCompilerUsed(Append(mod, Descriptor)),
                        GV, NewGV, Tag, DescriptorPos + MaxDescriptorSize)

AliaseeTopUnshifted(c, NewGVTop, Tag) == (NewGVTop + Tag) % 256

\* Top byte of ptrtoint(NewGV) + (uint64_t(Tag) << PointerTagShift): the
\* shifted tag has no bit below bit 56, so the sum carries nothing into the
\* top byte and loses what leaves bit 63.
AliaseeTop(c, NewGVTop, Tag) == (NewGVTop + ShiftedTagTop(c, Tag)) % 256

\* GV->replaceAllUsesWith(Alias), Alias holding the name of GV: an alias
\* that had GV as its aliasee now has Alias, and its address moves with it.
replaceAllUsesWith(c, mod, Alias) ==
    [i \in DOMAIN mod |->
        IF mod[i].kind = "alias" /\ mod[i].ref = Alias.name
        THEN [mod[i] EXCEPT
                !.addrTop = AliaseeTop(c, Alias.addrTop, mod[i].tag)]
        ELSE mod[i]]

\* instrumentGlobal(GV, Tag)
instrumentGlobal(c, mod, GV, Tag) ==
    LET SizeInBytes == GV.size
        NewSize == alignTo(SizeInBytes)
        NewGV == [GV EXCEPT !.name = Append(GV.name, ".hwasan"),
                            !.linkage = "private",
                            !.size = NewSize,
                            !.padTag = IF SizeInBytes # NewSize THEN Tag
                                       ELSE GV.padTag]
        Alias == [SourceGlobal("", GV.size) EXCEPT
                            !.name = GV.name,
                            !.kind = "alias",
                            !.linkage = GV.linkage,
                            !.tag = Tag,
                            !.addrTop = AliaseeTop(c, NewGV.addrTop, Tag),
                            !.ref = NewGV.name]
        created == Descriptors(Append(mod, NewGV), GV, NewGV, Tag, 0)
    IN Append(replaceAllUsesWith(c, WithoutName(created, GV.name), Alias),
              Alias)

\* The loop over Globals: instrumentGlobal(GV, Tag++), Tag a uint8_t.
RECURSIVE TagGlobals(_, _, _, _)
TagGlobals(c, mod, Globals, Tag) ==
    IF Globals = <<>> THEN mod
    ELSE LET tag == IF TagLeavesRange(c, Tag) THEN 16 ELSE Tag
         IN TagGlobals(c, instrumentGlobal(c, mod, Head(Globals), tag),
                       Tail(Globals), (tag + 1) % 256)

\* One run of the pass over the module: instrumentGlobals.
instrumentGlobals ==
    /\ gRuns < MaxRuns
    /\ gModule' = TagGlobals(cfg, gModule, SelectGlobals(gModule), gTag)
    /\ gRuns' = gRuns + 1
    /\ UNCHANGED <<cfg, codecVars, memVars, checkVars, stackVars, globalVars,
                   lifeVars, passVars, ringVars, instrVars>>

\* Sizes of source globals: below, at and above one granule.
GlobalSizes == {4, 16, 20}

\* The source globals of the model: eligible ones, and one for each reason
\* the selection loop skips a global.
GlobalShapes(name) ==
    {SourceGlobal(name, s) : s \in GlobalSizes}
    \cup {[SourceGlobal(name, 4) EXCEPT !.NoHWAddress = TRUE],
          [SourceGlobal(name, 4) EXCEPT !.declaration = TRUE],
          [SourceGlobal(name, 4) EXCEPT !.threadLocal = TRUE],
          [SourceGlobal(name, 4) EXCEPT !.linkage = "common"],
          [SourceGlobal(name, 4) EXCEPT !.section = "custom"],
          SourceGlobal("llvm.x", 4)}

\* Values of Hash[0]: below, in and above the range [16, TagMaskByte].
SeedSamples == {0, 16, 63, 64, 255}

InitModule ==
    /\ LifeIdle
    /\ PassIdle
    /\ RingIdle
    /\ InstrIdle
    /\ cfg \in GlobalCfgs
    /\ CodecIdle
    /\ CheckIdle
    /\ MemZero
    /\ StackIdle
    /\ gTag \in SeedSamples
    /\ gLeft = 0
    /\ gAssigned = <<>>
    /\ gModule \in {<<a>> : a \in GlobalShapes("a")}
                   \cup {<<a, b>> : a \in GlobalShapes("a"),
                                    b \in GlobalShapes("b")}
    /\ gRuns = 0

NextModule == instrumentGlobals

SpecModule == InitModule /\ [][NextModule]_vars

\* C14: once the globals of a module have been rewritten, a further run of
\* global tagging changes nothing in the module: no new tag, alias, padding
\* or descriptor.
SecondRunOfGlobalTaggingIsNoOp ==
    [][gRuns >= 1 => gModule' = gModule]_vars

----------------------------------------------------------------------------
(* Tagging of one global of any size, under every seed.                    *)

\* Sizes of source globals around the descriptor cap: empty, within one
\* granule, a granule, the cap, and sizes that need two, three and four
\* descriptors.
TagGlobalSizes ==
    {0, 5, 16, MaxDescriptorSize - 3, MaxDescriptorSize,
     MaxDescriptorSize + 1, 2 * MaxDescriptorSize + 20,
     3 * MaxDescriptorSize, 3 * MaxDescriptorSize + 16}

InitTagGlobal ==
    /\ LifeIdle
    /\ PassIdle
    /\ RingIdle
    /\ InstrIdle
    /\ cfg \in GlobalCfgs
    /\ CodecIdle
    /\ CheckIdle
    /\ MemZero
    /\ StackIdle
    /\ gTag \in Byte
    /\ gLeft = 0
    /\ gAssigned = <<>>
    /\ gModule \in {<<SourceGlobal("a", s)>> : s \in TagGlobalSizes}
    /\ gRuns = 0

NextTagGlobal == instrumentGlobals

SpecTagGlobal == InitTagGlobal /\ [][NextTagGlobal]_vars

\* The aliases instrumentGlobal made for a storage object: the aliasee is a
\* variable of the module.
StorageAliases(mod) ==
    {i \in DOMAIN mod :
        /\ mod[i].kind = "alias"
        /\ \E j \in DOMAIN mod :
              mod[j].name = mod[i].ref /\ mod[j].kind = "variable"}

StorageOf(mod, al) ==
    mod[CHOOSE j \in DOMAIN mod : mod[j].name = al.ref]

\* The descriptor records of a storage object, in the order of creation.
DescriptorsOf(mod, storage) ==
    SelectSeq(mod, LAMBDA gv :
                      gv.section = "hwasan_globals" /\ gv.ref = storage)

RECURSIVE SumOfSizes(_)
SumOfSizes(ds) ==
    IF ds = <<>> THEN 0 ELSE Head(ds).word.lo + SumOfSizes(Tail(ds))

CeilDiv(a, b) == (a + b - 1) \div b

\* C23: a tagged global of s bytes has exactly ceil(s / 0xfffff0)
\* descriptor records; record k describes offset k * 0xfffff0 with size
\* min(s - k * 0xfffff0, 0xfffff0), so the sizes sum to s; the top byte of
\* the packed word of every record is the tag of the global, untouched by
\* the size in the low three bytes.
DescriptorRecordsCoverGlobal ==
    \A i \in StorageAliases(gModule) :
        LET al == gModule[i]
            s == al.size
            ds == DescriptorsOf(gModule, al.ref)
        IN /\ Len(ds) = CeilDiv(s, MaxDescriptorSize)
           /\ \A k \in 1 .. Len(ds) :
                 /\ ds[k].pos = (k - 1) * MaxDescriptorSize
                 /\ ds[k].word.lo
                      = DescriptorSize(s, (k - 1) * MaxDescriptorSize)
                 /\ ds[k].word.lo <= MaxDescriptorSize
                 /\ ds[k].word.hi = al.tag
           /\ SumOfSizes(ds) = s

\* A global above twice the cap got three records, the last one partial.
WitnessThreeDescriptorRecords ==
    \E i \in StorageAliases(gModule) :
        LET ds == DescriptorsOf(gModule, gModule[i].ref)
        IN /\ gModule[i].size = 2 * MaxDescriptorSize + 20
           /\ Len(ds) = 3
           /\ ds[3].word = [hi |-> gModule[i].tag, lo |-> 20]

\* C25: for a tagged global the tag the check extracts from the alias
\* address, the tag in every descriptor record and, when the size is not a
\* granule multiple, the last byte of the padding are the same value; the
\* storage has the smallest granule multiple that holds the original size,
\* and a global of a granule multiple keeps its size.
AliasDescriptorAndPaddingTagsAgree ==
    \A i \in StorageAliases(gModule) :
        LET al == gModule[i]
            st == StorageOf(gModule, al)
            ds == DescriptorsOf(gModule, al.ref)
            T == PtrTagOf(cfg, [top |-> al.addrTop, low |-> 0])
        IN /\ T \in 16 .. TagMaskByte(cfg)
           /\ \A k \in 1 .. Len(ds) : ds[k].word.hi = T
           /\ al.size % Granule # 0 => st.padTag = T
           /\ st.size % Granule = 0
           /\ st.size >= al.size
           /\ st.size - al.size < Granule
           /\ al.size % Granule = 0 => st.size = al.size

\* A global of 5 bytes tagged on the target with the tag at bit 57: the
\* padding holds the tag that the alias address carries.
WitnessPaddedGlobalTagged ==
    \E i \in StorageAliases(gModule) :
        /\ cfg.arch = "x86_64"
        /\ gModule[i].size = 5
        /\ gModule[i].tag = 40
        /\ StorageOf(gModule, gModule[i]).padTag = 40
        /\ StorageOf(gModule, gModule[i]).size = Granule
        /\ gModule[i].addrTop = 80

----------------------------------------------------------------------------
(* The pass object: its construction (the constructor, initializeModule,   *)
(* ShadowMapping::init) and sanitizeFunction with the three members        *)
(* ShadowBase, StackBaseTag and CachedSP (TRUE: set, FALSE: nullptr).      *)

\* The largest number of functions of a module.
MaxFunctions == 3

\* kDynamicShadowSentinel, std::numeric_limits<uint64_t>::max(), as the
\* 64-bit two's complement value it is.
kDynamicShadowSentinel == -1

\* Values of -hwasan-mapping-offset when it is given.
OffsetSamples == {0, 4096}

\* A boolean command-line flag: absent, or given with a value.
FlagStates == {"unset", "true", "false"}

\* The platform facts, the pass options and the flags a construction reads.
PassInputs ==
    {in \in [arch : Archs,
             OS : {"linux", "android", "fuchsia"},
             ClMappingOffsetOccurrences : {0, 1},
             ClMappingOffset : OffsetSamples,
             ClEnableKhwasan : FlagStates,
             CompileKernel : BOOLEAN,
             ClInstrumentWithCalls : FlagStates,
             ClWithIfunc : BOOLEAN,
             ClWithTls : BOOLEAN,
             ClRecordStackHistory : {"none", "instr", "libcall"}] :
        in.ClMappingOffsetOccurrences = 0 => in.ClMappingOffset = 0}

\* The value of a boolean flag; every flag of PassInputs with three states
\* has cl::init(false).
FlagValue(flag) == flag = "true"

\* The constructor: this->CompileKernel.
EffectiveCompileKernel(in) ==
    IF in.ClEnableKhwasan # "unset" THEN FlagValue(in.ClEnableKhwasan)
    ELSE in.CompileKernel

\* shouldInstrumentWithCalls(TargetTriple)
shouldInstrumentWithCalls(in) ==
    IF in.ClInstrumentWithCalls # "unset"
    THEN FlagValue(in.ClInstrumentWithCalls)
    ELSE in.arch = "x86_64"

MappingOf(InGlobal, InTls, Offset, WithFrameRecord) ==
    [InGlobal |-> InGlobal, InTls |-> InTls, Offset |-> Offset,
     WithFrameRecord |-> WithFrameRecord]

\* ShadowMapping::init(TargetTriple, InstrumentWithCalls)
ShadowMappingInit(in, InstrumentWithCalls) ==
    IF in.OS = "fuchsia" THEN MappingOf(FALSE, FALSE, 0, TRUE)
    ELSE IF in.ClMappingOffsetOccurrences > 0
    THEN MappingOf(FALSE, FALSE, in.ClMappingOffset, FALSE)
    ELSE IF FlagValue(in.ClEnableKhwasan) \/ InstrumentWithCalls
    THEN MappingOf(FALSE, FALSE, 0, FALSE)
    ELSE IF in.ClWithIfunc
    THEN MappingOf(TRUE, FALSE, kDynamicShadowSentinel, FALSE)
    ELSE IF in.ClWithTls
    THEN MappingOf(FALSE, TRUE, kDynamicShadowSentinel, TRUE)
    ELSE MappingOf(FALSE, FALSE, kDynamicShadowSentinel, FALSE)

NoMembers == [ShadowBase |-> FALSE, StackBaseTag |-> FALSE, CachedSP |-> FALSE]

\* HWAddressSanitizerPass::run up to the loop over the functions: the
\* constructor and initializeModule.
ConstructPass ==
    /\ Mapping = [none |-> TRUE]
    /\ Mapping' = ShadowMappingInit(inputs, shouldInstrumentWithCalls(inputs))
    /\ members' = NoMembers
    /\ UNCHANGED <<cfg, codecVars, memVars, checkVars, stackVars, globalVars,
                   lifeVars, moduleVars, ringVars, instrVars, inputs, sfLog, sfCount>>

\* The functions sanitizeFunction meets: the module constructor, a function
\* without the sanitize attribute, a function with nothing to instrument, a
\* function with memory accesses only, and one with allocas.
FunctionKinds == {"ctor", "noattr", "nothing", "accesses", "allocas"}

ReturnsEarly(kind) == kind \in {"ctor", "noattr", "nothing"}

\* The members when emitPrologue, getStackBaseTag and getUARTag have run for
\* a function of the kind.
MembersAfterPrologue(in, map, m, kind) ==
    LET WithFrameRecord == /\ in.ClRecordStackHistory # "none"
                           /\ map.WithFrameRecord
                           /\ kind = "allocas"
    IN [ShadowBase |-> TRUE,
        StackBaseTag |-> m.StackBaseTag
                         \/ (WithFrameRecord
                             /\ in.ClRecordStackHistory = "instr"),
        CachedSP |-> m.CachedSP \/ WithFrameRecord \/ kind = "allocas"]

\* The members when sanitizeFunction returns without the three assignments
\* of its end.
MembersKeptAtEnd(m) == m

\* ShadowBase = nullptr; StackBaseTag = nullptr; CachedSP = nullptr;
MembersAtEnd(m) == NoMembers

\* ThreadPtrGlobal: initializeModule creates __hwasan_tls when the target
\* is not Android.
ThreadPtrGlobal(in) == in.OS # "android"

\* getHwasanThreadSlotPtr: the fixed slot of Android on AArch64, else
\* ThreadPtrGlobal when it is set, else nullptr.
getHwasanThreadSlotPtr(in) ==
    IF in.arch = "aarch64" /\ in.OS = "android" THEN "android slot"
    ELSE IF ThreadPtrGlobal(in) THEN "__hwasan_tls"
    ELSE "nullptr"

\* emitPrologue: whether it calls getThreadLongMaybeUntagged, which loads
\* ThreadLong through the slot pointer.
PrologueLoadsSlot(in, map, kind) ==
    LET WithFrameRecord == /\ in.ClRecordStackHistory # "none"
                           /\ map.WithFrameRecord
                           /\ kind = "allocas"
        ShadowBaseSet == \/ ~map.InTls
                         \/ (~WithFrameRecord /\ in.OS = "android")
    IN IF ~WithFrameRecord /\ ShadowBaseSet THEN FALSE
       ELSE \/ (WithFrameRecord /\ in.ClRecordStackHistory = "instr")
            \/ ~ShadowBaseSet

\* IRB.CreateLoad(IntptrTy, SlotPtr) with the slot pointer: a load through
\* nullptr is undefined in the compiler, which stops there or goes on with
\* an instruction that has no pointer operand.
LoadOutcomes(SlotPtr) ==
    IF SlotPtr = "nullptr" THEN {"crashed", "returned"} ELSE {"returned"}

\* sanitizeFunction(F, FAM) for one function of the module.  sfLog keeps
\* what the call saw: the members at its start, whether assert(!ShadowBase)
\* was reached and held, the members while the function was instrumented,
\* the slot pointer emitPrologue loaded through, how the call ended, and
\* the kind of the function before.
sanitizeFunction ==
    /\ Mapping # [none |-> TRUE]
    /\ sfCount < MaxFunctions
    /\ sfLog # [none |-> TRUE] => sfLog.outcome = "returned"
    /\ \E kind \in FunctionKinds :
          LET during == MembersAfterPrologue(inputs, Mapping, members, kind)
              before == IF sfLog = [none |-> TRUE] THEN "first"
                        ELSE sfLog.kind
              SlotPtr == IF ~ReturnsEarly(kind)
                            /\ PrologueLoadsSlot(inputs, Mapping, kind)
                         THEN getHwasanThreadSlotPtr(inputs)
                         ELSE "not loaded"
          IN \E outcome \in LoadOutcomes(SlotPtr) :
             /\ sfLog' = [kind |-> kind,
                          before |-> before,
                          atStart |-> members,
                          asserted |-> ~ReturnsEarly(kind),
                          assertHeld |-> ReturnsEarly(kind)
                                         \/ ~members.ShadowBase,
                          SlotPtr |-> SlotPtr,
                          outcome |-> outcome,
                          during |-> IF ReturnsEarly(kind)
                                        \/ outcome = "crashed"
                                     THEN members
                                     ELSE during]
             /\ members' = IF ReturnsEarly(kind) \/ outcome = "crashed"
                           THEN members
                           ELSE MembersAtEnd(during)
    /\ sfCount' = sfCount + 1
    /\ UNCHANGED <<cfg, codecVars, memVars, checkVars, stackVars, globalVars,
                   lifeVars, moduleVars, ringVars, instrVars, inputs, Mapping>>

InitPass ==
    /\ LifeIdle
    /\ ModuleIdle
    /\ RingIdle
    /\ InstrIdle
    /\ cfg = DefaultCfg
    /\ CodecIdle
    /\ CheckIdle
    /\ MemZero
    /\ StackIdle
    /\ GlobalsIdle
    /\ inputs \in PassInputs
    /\ Mapping = [none |-> TRUE]
    /\ members = NoMembers
    /\ sfLog = [none |-> TRUE]
    /\ sfCount = 0

NextPass == ConstructPass \/ sanitizeFunction

SpecPass == InitPass /\ [][NextPass]_vars

\* C15: for every sequence of functions given to sanitizeFunction, the shadow
\* base, the cached stack pointer and the base tag are unset when the
\* processing of each function starts, and assert(!ShadowBase) holds whenever
\* it is reached.
MembersUnsetAtFunctionStart ==
    /\ members = NoMembers
    /\ sfLog # [none |-> TRUE] =>
          /\ sfLog.atStart = NoMembers
          /\ sfLog.assertHeld

\* C15 witness: a function with allocas was instrumented right after another
\* one, all three members were set while it was, and its assertion was
\* reached.
WitnessMembersSetThenCleared ==
    /\ sfLog # [none |-> TRUE]
    /\ sfLog.kind = "allocas"
    /\ sfLog.before = "allocas"
    /\ sfLog.asserted
    /\ sfLog.during = [ShadowBase |-> TRUE, StackBaseTag |-> TRUE,
                       CachedSP |-> TRUE]

\* C28: for every target and flag combination, whenever emitPrologue loads
\* the thread-local slot a thread slot pointer exists
\* (getHwasanThreadSlotPtr does not return null), and when emitPrologue has
\* returned the shadow base is set.
SlotPointerExistsWhenLoaded ==
    (sfLog # [none |-> TRUE] /\ sfLog.asserted) =>
        /\ sfLog.SlotPtr # "nullptr"
        /\ sfLog.outcome = "returned"
        /\ sfLog.during.ShadowBase

\* The mapping the priority order gives, kernel mode being the pass's
\* CompileKernel.
RuleOrderMapping(in) ==
    IF in.OS = "fuchsia" THEN MappingOf(FALSE, FALSE, 0, TRUE)
    ELSE IF in.ClMappingOffsetOccurrences > 0
    THEN MappingOf(FALSE, FALSE, in.ClMappingOffset, FALSE)
    ELSE IF EffectiveCompileKernel(in) \/ shouldInstrumentWithCalls(in)
    THEN MappingOf(FALSE, FALSE, 0, FALSE)
    ELSE IF in.ClWithIfunc
    THEN MappingOf(TRUE, FALSE, kDynamicShadowSentinel, FALSE)
    ELSE IF in.ClWithTls
    THEN MappingOf(FALSE, TRUE, kDynamicShadowSentinel, TRUE)
    ELSE MappingOf(FALSE, FALSE, kDynamicShadowSentinel, FALSE)

\* C16: for every combination of platform facts and flags the resolver yields
\* the mapping of the first matching rule (fixed zero offset; numeric
\* override; kernel mode, by option or by flag, or call-based
\* instrumentation; ifunc; TLS with frame record; plain dynamic), InGlobal
\* and InTls are never both set, and either implies the sentinel offset.
ResolverPicksFirstMatchingRule ==
    Mapping # [none |-> TRUE] =>
       /\ Mapping = RuleOrderMapping(inputs)
       /\ ~(Mapping.InGlobal /\ Mapping.InTls)
       /\ (Mapping.InGlobal \/ Mapping.InTls) =>
             Mapping.Offset = kDynamicShadowSentinel

----------------------------------------------------------------------------
(* The inline check under the assumption that the processor keeps          *)
(* executing: each block of the check is straight-line code ending in a    *)
(* branch, a trap or the access, so a started check takes its next step.   *)

\* Shadow bytes and last-byte values that take the check down each of its
\* paths: a match, a short granule that passes or fails, a full mismatch.
TrapMemTags == {5, 16}
TrapInlineTags == {5, 42}

InitTrap ==
    /\ ExtIdle
    /\ cfg \in CheckCfgs
    /\ CodecIdle
    /\ CheckIdle
    /\ StackIdle
    /\ GlobalsIdle
    /\ \E m \in TrapMemTags :
          shadow = [g \in Granules |-> IF g = 0 THEN m ELSE 0]
    /\ \E i \in TrapInlineTags :
          mem = [a \in Addrs |-> IF a = Granule - 1 THEN i ELSE 0]

SpecTrap == InitTrap /\ [][NextCheck]_vars /\ WF_vars(InlineCheckStep)

\* C18: in the inline check with Recover, an execution that reaches the trap
\* executes it once and goes on to the checked access; without Recover an
\* execution that reaches the trap never reaches the access; in both modes
\* every path through the check ends at the access or at the trap.
TrapOnceThenAccessIffRecover ==
    /\ [](trapCount <= 1)
    /\ []((cfg.Recover /\ trapCount = 1) => pc \in {"pass", "access", "done"})
    /\ ((cfg.Recover /\ pc = "fail") ~> (accessed /\ trapCount = 1))
    /\ []((~cfg.Recover /\ trapCount > 0) => (pc = "abort" /\ ~accessed))
    /\ [](pc = "abort" => (trapCount = 1 /\ ~cfg.Recover))
    /\ (pc = "head" ~> (pc \in {"done", "abort"}))

\* C18 witness: with Recover, the access ran after one trap.
WitnessAccessAfterTrap ==
    /\ cfg.Recover
    /\ trapCount = 1
    /\ accessed
    /\ pc = "done"

----------------------------------------------------------------------------
(* Specification of a live allocation: one allocation is tagged with a tag *)
(* from each base-tag source and accessed through its replacement pointer  *)
(* while it is live.                                                       *)

\* Bits 3..10 of the thread slot value: with and without bits 6 and 7.
LiveThreadLongs == {0, 9, 100, 133}

\* Where the base tag comes from: the stack pointer, the thread slot value
\* (inline frame records; the kernel mapping has no frame record), or the
\* runtime's tag generator.
LiveCfgs ==
    {c \in {[DefaultCfg EXCEPT !.arch = a, !.CompileKernel = k,
                               !.UseShortGranules = u,
                               !.MatchAllTag = IF k THEN 255 ELSE -1,
                               !.ClGenerateTagsWithCalls = g,
                               !.FrameRecordInstr = f] :
                a \in Archs, k \in BOOLEAN, u \in BOOLEAN, g \in BOOLEAN,
                f \in BOOLEAN} :
        /\ ~(c.FrameRecordInstr /\ c.CompileKernel)
        /\ ~(c.FrameRecordInstr /\ c.ClGenerateTagsWithCalls)}

InitLiveAlloca ==
    /\ ExtIdle
    /\ cfg \in LiveCfgs
    /\ CodecIdle
    /\ CheckIdle
    /\ GlobalsIdle
    /\ MemZero
    /\ fpc = "entry"
    /\ CachedSP \in [top : SPTops, mid : {0, 100}, lo : {0, 16}]
    /\ ThreadLong \in (IF cfg.FrameRecordInstr THEN LiveThreadLongs ELSE {0})
    /\ StackBaseTag = -1
    /\ StackTag = -1
    /\ UARTag = -1
    /\ aiNo \in 0 .. MaxStackAllocaNo
    /\ aiSize \in StackSizes
    /\ AllocaTag = -1
    /\ Replacement = NoPtr
    /\ lastWrites = {}

NextLiveAlloca ==
    \/ Prologue
    \/ ReplaceAlloca
    \/ TagStart
    \/ AccessAlloca
    \/ InlineCheckStep
    \/ FinishAccess

SpecLiveAlloca == InitLiveAlloca /\ [][NextLiveAlloca]_vars

\* C17: for every base-tag source, allocation index, allocation size, mode
\* and architecture, an access of 1, 2, 4, 8 or 16 bytes inside a tagged,
\* not yet untagged stack allocation through its replacement pointer passes
\* the inline check without a fault.
InBoundsAccessOfLiveAllocaPasses ==
    (fpc = "tagged" /\ pc # "idle") =>
        /\ pc \notin {"fail", "abort", "wild"}
        /\ trapCount = 0

----------------------------------------------------------------------------
(* The ring buffer of frame records (emitPrologue, case instr).  slot is   *)
(* the thread slot value: top is its bits 56..63, the size of the buffer   *)
(* in pages, and addr its bits 0..55, the cursor.  The runtime does not    *)
(* use the highest bit of the top byte, so AShr(ThreadLong, 56) is the top *)
(* byte, and the cursor is far below 2^56, so adding 8 leaves the top byte *)
(* alone.                                                                  *)

\* The largest number of function entries of one thread.
MaxEntries == 3

\* Shl(.., 12): the bytes of a page.
PageSize == 4096

\* ConstantInt::get(IntptrTy, 8): the bytes of a frame record.
RecordSize == 8

\* The sizes of the buffer in pages.
PageCounts == {1, 2, 4, 64}

\* The address a store through p goes to: AArch64 ignores the top byte
\* (TBI); elsewhere every bit the pointer still holds is part of it.
StoreAddress(c, p) == IF c.arch = "aarch64" THEN [p EXCEPT !.top = 0] ELSE p

\* getThreadLongMaybeUntagged
ThreadLongMaybeUntagged(c, tl) ==
    IF c.arch = "aarch64" THEN tl
    ELSE LET u == untagPointer(c, [top |-> tl.top, low |-> tl.addr])
         IN [top |-> u.top, addr |-> u.low]

\* (ThreadLong + 8) & ~((ThreadLong >> 56) << 12): bits 12..19 of the sum
\* lose the bits of the top byte.
ThreadLongNew(tl) ==
    LET sum == tl.addr + RecordSize
        pages == (sum \div PageSize) % 256
        kept == And8(pages, 255 - tl.top)
    IN [tl EXCEPT !.addr = sum - (pages - kept) * PageSize]

\* The frame record part of a function's prologue: the record is stored at
\* RecordPtr and the slot is written back.
RecordFrame ==
    /\ Len(ringLog) < MaxEntries
    /\ LET RecordPtr == ThreadLongMaybeUntagged(cfg, slot)
           new == ThreadLongNew(slot)
       IN /\ ringLog' = Append(ringLog,
                               [before |-> slot,
                                storedAt |-> StoreAddress(cfg, RecordPtr),
                                after |-> new])
          /\ slot' = new
    /\ UNCHANGED <<cfg, codecVars, memVars, checkVars, stackVars, globalVars,
                   lifeVars, passVars, moduleVars,
                   instrVars>>

RingCfgs == {[DefaultCfg EXCEPT !.arch = a, !.FrameRecordInstr = TRUE] :
                a \in Archs}

\* The thread slot as the runtime sets it up: a buffer of S pages aligned to
\* twice its size, the cursor on any record of it (here the first two and
\* the last two).
InitRing ==
    /\ LifeIdle
    /\ PassIdle
    /\ ModuleIdle
    /\ InstrIdle
    /\ cfg \in RingCfgs
    /\ CodecIdle
    /\ CheckIdle
    /\ MemZero
    /\ StackIdle
    /\ GlobalsIdle
    /\ \E S \in PageCounts :
       \E start \in {0, 2 * S * PageSize, 6 * S * PageSize} :
       \E off \in {0, RecordSize, S * PageSize - 2 * RecordSize,
                   S * PageSize - RecordSize} :
          slot = [top |-> S, addr |-> start + off]
    /\ ringLog = <<>>

NextRing == RecordFrame

SpecRing == InitRing /\ [][NextRing]_vars

\* The start of the buffer the cursor of a slot value lies in.
BufferStart(tl) == tl.addr - (tl.addr % (tl.top * PageSize))

\* C19: in inline frame-record mode, from a slot whose top byte is a
\* power-of-two page count S and whose buffer of S*4096 bytes is aligned to
\* twice its size, after any number of function entries the top byte is
\* still S, the cursor is inside the buffer, each entry stored its record at
\* the cursor read on entry, and the cursor advanced by 8 bytes or went back
\* to the buffer start from the buffer end.
RingBufferKeptAndRecordAtCursor ==
    \A i \in 1 .. Len(ringLog) :
       LET en == ringLog[i]
           S == en.before.top
           start == BufferStart(en.before)
       IN /\ en.after.top = S
          /\ en.after.addr \in start .. start + S * PageSize - RecordSize
          /\ en.storedAt = [top |-> 0, addr |-> en.before.addr]
          /\ en.after.addr =
                IF en.before.addr + RecordSize = start + S * PageSize
                THEN start ELSE en.before.addr + RecordSize

----------------------------------------------------------------------------
(* instrumentMemAccess for the operands getInterestingMemoryOperands       *)
(* produces, under the configuration initializeModule derives from the     *)
(* target and the flags.  emitted keeps the number of operands processed   *)
(* and what was done for the last one.                                     *)

\* The largest number of operands instrumented in one run.
MaxOperands == 1

\* Targets: the three with a trap sequence, and one without.
TargetArchs == {"aarch64", "x86_64", "riscv64", "ppc64"}

\* Values of -hwasan-match-all-tag (cl::init(-1)).
MatchAllFlagValues == {-1, 42}

AccessInputs ==
    {o \in [arch : TargetArchs,
            ELF : BOOLEAN,
            CompileKernel : BOOLEAN,
            Recover : BOOLEAN,
            ClInstrumentWithCalls : FlagStates,
            ClInlineAllChecks : FlagStates,
            ClUsePageAliases : BOOLEAN,
            ClMatchAllTagOccurrences : {0, 1},
            ClMatchAllTag : MatchAllFlagValues] :
        o.ClMatchAllTagOccurrences = 0 => o.ClMatchAllTag = -1}

\* shouldUsePageAliases(TargetTriple)
shouldUsePageAliases(o) == o.ClUsePageAliases /\ o.arch = "x86_64"

\* initializeModule: MatchAllTag (-1: no value).
MatchAllTagOf(o) ==
    IF o.ClMatchAllTagOccurrences > 0
    THEN (IF o.ClMatchAllTag # -1 THEN o.ClMatchAllTag % 256 ELSE -1)
    ELSE IF o.CompileKernel THEN 255
    ELSE -1

\* A callback that takes the match-all tag whenever there is one.
UseMatchAllCallbackInKernel(c) == HasMatchAll(c)

\* initializeModule: UseMatchAllCallback.
UseMatchAllCallback(c) == ~c.CompileKernel /\ HasMatchAll(c)

\* initializeModule: the members instrumentMemAccess reads.
ConfigOf(o) ==
    [DefaultCfg EXCEPT !.arch = o.arch,
                       !.ELF = o.ELF,
                       !.CompileKernel = o.CompileKernel,
                       !.Recover = o.Recover,
                       !.InstrumentWithCalls = shouldInstrumentWithCalls(o),
                       !.ClInlineAllChecks = o.ClInlineAllChecks,
                       !.UsePageAliases = shouldUsePageAliases(o),
                       !.MatchAllTag = MatchAllTagOf(o)]

\* The construction of the pass object for the module.
initializeModule ==
    /\ stage = "none"
    /\ opts # [none |-> TRUE]
    /\ cfg' = ConfigOf(opts)
    /\ stage' = "initialized"
    /\ UNCHANGED <<codecVars, memVars, checkVars, stackVars, globalVars,
                   lifeVars, passVars, moduleVars, ringVars, opts, emitted,
                   funcs>>

\* The operands getInterestingMemoryOperands makes: loads and stores carry
\* their alignment, the atomics none (0), a by-value argument Align(1).
OperandWidths == {1, 8, 16, 3, 32}

Operands ==
    {[kind |-> k, width |-> w, Alignment |-> a] :
        k \in {"load", "store"}, w \in OperandWidths, a \in {1, 16}}
    \cup {[kind |-> k, width |-> w, Alignment |-> 0] :
        k \in {"atomicrmw", "cmpxchg"}, w \in OperandWidths}
    \cup {[kind |-> "byval", width |-> w, Alignment |-> 1] :
        w \in OperandWidths}

isPowerOf2(n) == \E i \in 0 .. 8 : n = Pow2(i)

\* The condition under which instrumentMemAccess uses one of the three
\* strategies instead of the sized callback.
FitsOneCheck(O) ==
    /\ isPowerOf2(O.width)
    /\ O.width <= Pow2(kNumberOfAccessSizes - 1)
    /\ (O.Alignment = 0 \/ O.Alignment >= Granule \/ O.Alignment >= O.width)

\* The targets untagPointerOperand leaves the operand alone on.
IgnoresTagBits(c) == c.arch \in {"aarch64", "x86_64", "riscv64"}

\* What instrumentMemAccess does for operand O: the check it emits, the
\* arguments of a callback, the operations with assert(!UsePageAliases) it
\* goes through, whether the operand is rewritten, and the fatal error that
\* ends the compilation, if any.
MemAccessResult(c, O) ==
    LET fits == FitsOneCheck(O)
        check == IF fits THEN Strategy(c) ELSE "sized call"
        args == IF check \in {"outline", "inline"} THEN <<>>
                ELSE <<"ptr">>
                     \o (IF fits THEN <<>> ELSE <<"size">>)
                     \o (IF UseMatchAllCallback(c) THEN <<"match-all tag">>
                         ELSE <<>>)
        trapFatal == check = "inline" /\ ~IgnoresTagBits(c)
        rewrite == ~trapFatal /\ ~IgnoresTagBits(c)
        indexFatal == rewrite /\ O.kind = "byval"
    IN [operand |-> O,
        check |-> check,
        args |-> args,
        asserting |-> (IF check = "outline"
                       THEN {"instrumentMemAccessOutline"} ELSE {})
                      \cup (IF check = "inline"
                            THEN {"instrumentMemAccessInline"} ELSE {})
                      \cup (IF rewrite THEN {"untagPointer"} ELSE {}),
        untagged |-> rewrite /\ ~indexFatal,
        fatal |-> IF trapFatal THEN "unsupported architecture"
                  ELSE IF indexFatal THEN "Unexpected instruction"
                  ELSE "none"]

NoOperand == [n |-> 0]

\* instrumentMemAccess(O) for the next operand of the function.
instrumentMemAccess ==
    /\ stage = "initialized"
    /\ emitted.n < MaxOperands
    /\ emitted.n > 0 => emitted.last.fatal = "none"
    /\ \E O \in Operands :
          emitted' = [n |-> emitted.n + 1, last |-> MemAccessResult(cfg, O)]
    /\ UNCHANGED <<cfg, codecVars, memVars, checkVars, stackVars, globalVars,
                   lifeVars, passVars, moduleVars, ringVars, opts, funcs,
                   stage>>

InitAccess ==
    /\ LifeIdle
    /\ PassIdle
    /\ ModuleIdle
    /\ RingIdle
    /\ cfg = DefaultCfg
    /\ CodecIdle
    /\ CheckIdle
    /\ MemZero
    /\ StackIdle
    /\ GlobalsIdle
    /\ opts \in AccessInputs
    /\ emitted = NoOperand
    /\ funcs = <<>>
    /\ stage = "none"

NextAccess == initializeModule \/ instrumentMemAccess

SpecAccess == InitAccess /\ [][NextAccess]_vars

Instrumented == stage = "initialized" /\ emitted.n > 0

PowerOfTwoUpTo16(O) == O.width \in {1, 2, 4, 8, 16}

\* C21 as stated: for every configuration and every access of power-of-two
\* width up to 16 bytes, the outlined strategy is chosen only on AArch64 or
\* RISC-V 64 with ELF, call-based instrumentation off and page aliasing off;
\* the call strategy is chosen whenever call-based instrumentation is on;
\* in the remaining cases the inline strategy is chosen.
StrategyByTargetAndCalls ==
    (Instrumented /\ PowerOfTwoUpTo16(emitted.last.operand)) =>
       LET r == emitted.last
       IN /\ r.check = "outline" =>
                /\ cfg.arch \in {"aarch64", "riscv64"}
                /\ cfg.ELF
                /\ ~cfg.InstrumentWithCalls
                /\ ~cfg.UsePageAliases
          /\ cfg.InstrumentWithCalls => r.check = "call"
          /\ (~cfg.InstrumentWithCalls /\ r.check # "outline") =>
                r.check = "inline"

\* C21 as amended: the same for every access of power-of-two width up to 16
\* bytes whose alignment is unknown, at least a granule or at least the
\* width; any other access gets the sized callback in every configuration.
StrategyByTargetAndCallsWhenAligned ==
    Instrumented =>
       LET r == emitted.last
           O == r.operand
           aligned == O.Alignment = 0 \/ O.Alignment >= 16
                      \/ O.Alignment >= O.width
       IN IF PowerOfTwoUpTo16(O) /\ aligned
          THEN /\ r.check = "outline" =>
                     /\ cfg.arch \in {"aarch64", "riscv64"}
                     /\ cfg.ELF
                     /\ ~cfg.InstrumentWithCalls
                     /\ ~cfg.UsePageAliases
               /\ cfg.InstrumentWithCalls => r.check = "call"
               /\ (~cfg.InstrumentWithCalls /\ r.check # "outline") =>
                     r.check = "inline"
          ELSE r.check = "sized call"

\* C21 witness: an aligned 8-byte load got the outlined check.
WitnessOutlinedCheckChosen ==
    /\ Instrumented
    /\ emitted.last.check = "outline"
    /\ emitted.last.operand = [kind |-> "load", width |-> 8, Alignment |-> 16]
    /\ cfg.arch = "riscv64"

\* C22 as stated: under the call strategy, whenever a match-all tag is
\* active (set by the flag, or the kernel default 0xFF) the callback gets
\* the match-all tag as an argument after the pointer, and the pointer only
\* when no match-all tag is active.
CallGetsMatchAllTagWhenActive ==
    (Instrumented /\ emitted.last.check = "call") =>
       emitted.last.args = IF HasMatchAll(cfg) THEN <<"ptr", "match-all tag">>
                           ELSE <<"ptr">>

\* C22 as amended: the callback gets the match-all tag exactly when a
\* match-all tag is active and the compilation is not for the kernel; in
\* the kernel (default 0xFF or a flag value) it gets the pointer only.
CallGetsMatchAllTagOutsideKernel ==
    (Instrumented /\ emitted.last.check = "call") =>
       emitted.last.args =
          IF HasMatchAll(cfg) /\ ~cfg.CompileKernel
          THEN <<"ptr", "match-all tag">>
          ELSE <<"ptr">>

\* C22 witness: in the kernel, with the default match-all tag 0xFF, a store
\* got the callback with the pointer only.
WitnessKernelCallWithoutMatchAllTag ==
    /\ Instrumented
    /\ emitted.last.check = "call"
    /\ emitted.last.operand.kind = "store"
    /\ cfg.CompileKernel
    /\ cfg.MatchAllTag = 255
    /\ emitted.last.args = <<"ptr">>

\* C29: for every flag combination, the operations that assert that page
\* aliasing is off (tagPointer, untagPointer, the outlined check, the inline
\* check, instrumentGlobal) are never reached while page aliasing is on.
AssertingOperationsUnreachedWithPageAliases ==
    (Instrumented /\ cfg.UsePageAliases) => emitted.last.asserting = {}

\* C30: on a target that does not ignore tag bits on loads and stores,
\* instrumentMemAccess rewrites the pointer operand of every kind of
\* operand to its untagged form without a fatal error; the only fatal error
\* is an unsupported architecture reaching the emission of the trap.
OperandUntaggedWithoutFatalError ==
    Instrumented =>
       /\ emitted.last.fatal \in {"none", "unsupported architecture"}
       /\ (~IgnoresTagBits(cfg) /\ emitted.last.fatal = "none") =>
             emitted.last.untagged

----------------------------------------------------------------------------
(* Personality functions: the thunks initializeModule installs and the     *)
(* one sanitizeFunction drops.                                             *)

kHwasanPersonalityThunkName == "__hwasan_personality_thunk"

\* The largest number of functions in a source module.
MaxModuleFunctions == 2

\* A function of the module.  personality is the name of the personality
\* routine after stripPointerCasts (NoName when there is none), original the
\* personality the source gave the function, allocas the number of stack
\* allocations the stack analysis finds worth instrumenting, wraps the
\* routine a thunk hands to the wrapper in the runtime.
SourceFunction(name, sanitize, personality, nounwind, allocas) ==
    [name |-> <<name>>, declaration |-> FALSE, sanitize |-> sanitize,
     personality |-> personality, original |-> personality,
     nounwind |-> nounwind, allocas |-> allocas, thunk |-> FALSE,
     wraps |-> NoName, visited |-> FALSE]

Personalities == {NoName, <<"__gxx_personality_v0">>, <<"__CxxFrameHandler3">>}

\* The functions of the model: the sanitized ones in every shape, two
\* without the attribute, and a declaration.
FunctionShapes(name) ==
    {SourceFunction(name, TRUE, p, u, a) :
        p \in Personalities, u \in BOOLEAN, a \in {0, 1}}
    \cup {SourceFunction(name, FALSE, <<"__gxx_personality_v0">>, FALSE, 1),
          SourceFunction(name, FALSE, NoName, FALSE, 0),
          [SourceFunction(name, TRUE, NoName, FALSE, 0)
              EXCEPT !.declaration = TRUE]}

FunctionNames == <<"f1", "f2", "f3", "f4">>

RECURSIVE SourceModules(_)
SourceModules(n) ==
    IF n = 0 THEN {<<>>}
    ELSE {Append(m, f) : m \in SourceModules(n - 1),
                         f \in FunctionShapes(FunctionNames[n])}

\* What the thunks depend on: the target (Android before API level 30 has
\* the old runtime), kernel mode and the two flags.
PersonalityInputs ==
    [Target : {"linux", "android29", "android30"},
     CompileKernel : BOOLEAN,
     ClInstrumentPersonalityFunctions : FlagStates,
     InstrumentStack : BOOLEAN]

\* !TargetTriple.isAndroid() || !TargetTriple.isAndroidVersionLT(30)
NewRuntime(o) == o.Target # "android29"

\* ClInstrumentPersonalityFunctions.getNumOccurrences()
\*     ? ClInstrumentPersonalityFunctions : NewRuntime
InstrumentPersonalityFunctions(o) ==
    IF o.ClInstrumentPersonalityFunctions # "unset"
    THEN FlagValue(o.ClInstrumentPersonalityFunctions)
    ELSE NewRuntime(o)

ThunkNameBare(P) == <<kHwasanPersonalityThunkName>>

\* ThunkName: kHwasanPersonalityThunkName, and "." and the name of the
\* personality when there is one.
ThunkName(P) ==
    <<kHwasanPersonalityThunkName>>
      \o (IF P # NoName THEN <<".">> \o P ELSE <<>>)

\* The first loop of instrumentPersonalityFunctions: F goes into the group
\* of its personality, or into the group of nullptr when it has none and may
\* unwind.
InPersonalityFns(F) ==
    /\ ~F.declaration
    /\ F.sanitize
    /\ (F.personality # NoName \/ ~F.nounwind)

\* The keys of the MapVector PersonalityFns, in the order of insertion.
RECURSIVE PersonalityKeys(_, _)
PersonalityKeys(fs, keys) ==
    IF fs = <<>> THEN keys
    ELSE LET F == Head(fs)
             seen == \E k \in DOMAIN keys : keys[k] = F.personality
         IN PersonalityKeys(Tail(fs),
                            IF InPersonalityFns(F) /\ ~seen
                            THEN Append(keys, F.personality) ELSE keys)

\* Function::Create(ThunkFnTy, ..., ThunkName, &M) and its body, a tail call
\* of the wrapper with P.first.
ThunkFn(P) ==
    [SourceFunction("", FALSE, NoName, FALSE, 0)
        EXCEPT !.name = ThunkName(P), !.thunk = TRUE, !.wraps = P]

\* instrumentPersonalityFunctions: one thunk for each key, set as the
\* personality of the functions of its group.
instrumentPersonalityFunctions(fs) ==
    LET keys == PersonalityKeys(fs, <<>>)
    IN [i \in DOMAIN fs |->
           IF InPersonalityFns(fs[i])
           THEN [fs[i] EXCEPT !.personality = ThunkName(fs[i].personality)]
           ELSE fs[i]]
       \o [k \in DOMAIN keys |-> ThunkFn(keys[k])]

\* initializeModule, lines 595-609: outside the kernel, and when the flag or
\* the runtime asks for it, the personality functions are instrumented.
initializeModulePersonalities ==
    /\ stage = "none"
    /\ funcs # <<>>
    /\ funcs' = IF ~opts.CompileKernel /\ InstrumentPersonalityFunctions(opts)
                THEN instrumentPersonalityFunctions(funcs)
                ELSE funcs
    /\ stage' = "initialized"
    /\ UNCHANGED <<cfg, codecVars, memVars, checkVars, stackVars, globalVars,
                   lifeVars, passVars, moduleVars, ringVars, opts, emitted>>

\* SInfo.AllocasToInstrument.size(): the stack analysis visits the
\* instructions only when InstrumentStack is set.
AllocasToInstrument(o, F) == IF o.InstrumentStack THEN F.allocas ELSE 0

DropsAnyThunk(o, F) ==
    /\ AllocasToInstrument(o, F) = 0
    /\ F.personality # NoName
    /\ Head(F.personality) = kHwasanPersonalityThunkName

\* SInfo.AllocasToInstrument.empty() && F.hasPersonalityFn() &&
\* F.getPersonalityFn()->getName() == kHwasanPersonalityThunkName
DropsPersonality(o, F) ==
    /\ AllocasToInstrument(o, F) = 0
    /\ F.personality # NoName
    /\ F.personality = <<kHwasanPersonalityThunkName>>

\* The next function of the loop of run: the first one not yet visited.
NextFunction ==
    CHOOSE i \in DOMAIN funcs :
        ~funcs[i].visited /\ \A j \in 1 .. i - 1 : funcs[j].visited

\* sanitizeFunction(F) as far as the personality goes: a function without
\* the attribute is left alone, the personality of another one is cleared
\* when DropsPersonality holds; nothing after line 1493 touches it.
sanitizeFunctionPersonality ==
    /\ stage = "initialized"
    /\ \E i \in DOMAIN funcs : ~funcs[i].visited
    /\ LET i == NextFunction
           F == funcs[i]
       IN /\ funcs' = [funcs EXCEPT
                ![i] = [F EXCEPT
                   !.visited = TRUE,
                   !.personality = IF F.sanitize /\ DropsPersonality(opts, F)
                                   THEN NoName ELSE F.personality]]
          /\ stage' = IF \A j \in DOMAIN funcs : j # i => funcs[j].visited
                      THEN "done" ELSE "initialized"
    /\ UNCHANGED <<cfg, codecVars, memVars, checkVars, stackVars, globalVars,
                   lifeVars, passVars, moduleVars, ringVars, opts, emitted>>

InitPersonality ==
    /\ LifeIdle
    /\ PassIdle
    /\ ModuleIdle
    /\ RingIdle
    /\ cfg = DefaultCfg
    /\ CodecIdle
    /\ CheckIdle
    /\ MemZero
    /\ StackIdle
    /\ GlobalsIdle
    /\ opts \in PersonalityInputs
    /\ emitted = <<>>
    /\ funcs \in UNION {SourceModules(n) : n \in 1 .. MaxModuleFunctions}
    /\ stage = "none"

NextPersonality == initializeModulePersonalities \/ sanitizeFunctionPersonality

SpecPersonality == InitPersonality /\ [][NextPersonality]_vars

\* instrumentPersonalityFunctions has run and no function was visited yet.
AfterInstrumentPersonalityFunctions ==
    /\ stage = "initialized"
    /\ ~opts.CompileKernel /\ InstrumentPersonalityFunctions(opts)
    /\ \A i \in DOMAIN funcs : ~funcs[i].visited

\* A defined function with the attribute that has a personality routine, or
\* none and may unwind, in the source.
NeedsThunk(F) ==
    /\ ~F.thunk
    /\ ~F.declaration
    /\ F.sanitize
    /\ (F.original # NoName \/ ~F.nounwind)

\* C24: after instrumentPersonalityFunctions every defined function with the
\* attribute that has a personality routine, or has none but may unwind, has
\* a synthesized thunk of the module as its personality, and the thunk wraps
\* its original routine; two such functions have the same thunk exactly when
\* their original personalities were the same (none being one of them); no
\* two thunks have the same name; every other function keeps its
\* personality.
ThunkPerOriginalPersonality ==
    AfterInstrumentPersonalityFunctions =>
        /\ \A i \in DOMAIN funcs :
              LET F == funcs[i]
              IN IF NeedsThunk(F)
                 THEN \E j \in DOMAIN funcs :
                         /\ funcs[j].thunk
                         /\ funcs[j].name = F.personality
                         /\ funcs[j].wraps = F.original
                 ELSE F.personality = F.original
        /\ \A i, j \in DOMAIN funcs :
              NeedsThunk(funcs[i]) /\ NeedsThunk(funcs[j]) =>
                 (funcs[i].personality = funcs[j].personality
                    <=> funcs[i].original = funcs[j].original)
        /\ \A i, j \in DOMAIN funcs :
              funcs[i].thunk /\ funcs[j].thunk /\ i # j =>
                 funcs[i].name # funcs[j].name

\* Two functions with different routines got two thunks, and a function
\* with no routine that may unwind shares nothing with them.
WitnessTwoThunks ==
    /\ AfterInstrumentPersonalityFunctions
    /\ Len(SelectSeq(funcs, LAMBDA F : F.thunk)) = 2
    /\ \E i, j \in DOMAIN funcs :
          /\ NeedsThunk(funcs[i]) /\ NeedsThunk(funcs[j])
          /\ funcs[i].original = NoName
          /\ funcs[j].original = <<"__gxx_personality_v0">>
          /\ funcs[i].personality = <<kHwasanPersonalityThunkName>>
          /\ funcs[j].personality # funcs[i].personality

\* C26: at the end of the pass every function with an instrumented stack
\* allocation that received a thunk still has it; sanitizeFunction changes a
\* personality only by clearing it, only for a function without an
\* instrumented allocation whose personality is the thunk of no original
\* routine, and a thunk that wraps an original routine is never removed.
ThunkKeptUnlessBareAndNoAllocas ==
    /\ [](stage = "done" /\ ~opts.CompileKernel
             /\ InstrumentPersonalityFunctions(opts) =>
          \A i \in DOMAIN funcs :
              NeedsThunk(funcs[i])
                /\ AllocasToInstrument(opts, funcs[i]) > 0 =>
                    funcs[i].personality = ThunkName(funcs[i].original))
    /\ [][stage = "initialized" =>
            \A i \in DOMAIN funcs :
               funcs'[i].personality # funcs[i].personality =>
                  /\ funcs'[i].personality = NoName
                  /\ AllocasToInstrument(opts, funcs[i]) = 0
                  /\ funcs[i].personality = ThunkName(NoName)
                  /\ funcs[i].original = NoName]_vars

\* The pass ended with one function that lost the bare thunk and one that
\* kept a thunk although it has no instrumented allocation.
WitnessBareThunkDropped ==
    /\ stage = "done"
    /\ \E i, j \in DOMAIN funcs :
          /\ NeedsThunk(funcs[i]) /\ NeedsThunk(funcs[j])
          /\ funcs[i].original = NoName
          /\ funcs[i].personality = NoName
          /\ AllocasToInstrument(opts, funcs[j]) = 0
          /\ funcs[j].personality = ThunkName(<<"__gxx_personality_v0">>)

====
